---- MODULE Spec2Model ----
(***************************************************************************)
(* Model of the fluent-builder reproducible-build and verification         *)
(* pipeline: hash normalisation and the verification engine (verify.rs),   *)
(* the compile pipeline it drives (compiler.rs, config.rs), the build      *)
(* orchestrator, toolchain resolution, source fingerprint and provenance   *)
(* decision (builder.rs) and the CLI gate in front of it (main.rs).        *)
(*                                                                         *)
(* Strings that the code inspects character by character are sequences of  *)
(* one-character strings.  SHA-256 is modelled as a collision-free digest: *)
(* the digest of a byte sequence is identified with the byte sequence fed  *)
(* to the hasher, and its hex rendering is computed digit by digit.        *)
(***************************************************************************)
EXTENDS Integers, Sequences, FiniteSets, TLC

VARIABLES
    project,              \* what is on disk / what the collaborators answer
    config,               \* VerifyConfig handed to verify_contract
    verify_pc,            \* position inside verify_contract
    compile_config,       \* Option<CompileConfig> built by build_compile_config
    compile_called,       \* whether compile() has been entered
    compilation_result,   \* Result<CompileOutput> of compile()
    hash_compared,        \* whether the hash comparison has been made
    verification_result,  \* Option<VerificationResult> returned
    verify_at_result,     \* Option<bool> returned by verify_at
    project_root,         \* absolute path of the fingerprinted project
    tree,                 \* relative path -> file bytes of that project
    readdir_order,        \* order in which the directory walk yields the files
    tree_change,          \* what happened to the tree between two fingerprints
    source_hash_before,   \* Option<String>: calculate_source_hash, first call
    source_hash_after,    \* Option<String>: calculate_source_hash, second call
    fingerprint_pc,       \* position of the fingerprinting scenario
    source_files,         \* Option<BTreeMap>: sources map of collect_source_files
    rust_version,         \* Option<Result<String>> of read_rust_toolchain_version
    build_entry,          \* "lib": build() called directly, "cli": through run_compile
    cli_args,             \* allow_dirty and no_docker of the compile command
    build_config,         \* CompileConfig handed to build()
    build_pc,             \* position inside run_compile / build()
    build_locals,         \* locals of build(): contract, sdk, git_info, bytecode, hash
    cargo_started,        \* whether the cargo build subprocess has been started
    build_result,         \* Option<Result<CompilationResult>> of build()
    cli_result,           \* Option<Result<printed output>> of run_compile
    archive_tree,         \* files of the project to archive: path -> data, mtime
    archive_options,      \* ArchiveOptions
    archive_sources,      \* Option: source paths recorded by a compilation result
    archive_first,        \* Option<Result<ArchiveInfo>>: first archive
    archive_second,       \* Option<Result<ArchiveInfo>>: archive of the unpacked files
    archive_file,         \* Option: what is written at output_path
    archive_pc,           \* position of the archiving scenario
    manifest_sdk,         \* value of dependencies.fluentbase-sdk in Cargo.toml
    contract_metadata,    \* Option<Result<WasmContract>> of parse_contract_metadata
    sdk_version_string,   \* Option<Result<String>> of builder's lock-file reader
    sdk_pc,               \* position of the SDK resolution scenario
    inv_config,           \* CompileConfig of each concurrent invocation
    inv_pc,               \* position of each invocation inside compile_to_wasm
    inv_compiled,         \* bytes the cargo build of each invocation produced
    inv_wasm,             \* Option<Vec<u8>> each compile_to_wasm returned
    target_file,          \* <project_root>/target/<target>/<profile>/<name>.wasm
    abi,                  \* Abi handed to interface::generate
    contract_name,        \* words of the contract name
    interface,            \* Option<Result<String>> of interface::generate
    function_selectors,   \* Option<BTreeMap>: selectors of create_metadata
    method_identifiers,   \* Option<BTreeMap>: identifiers of metadata::generate
    parsed_routers,       \* Vec<Router> handed to abi::generate
    generated_abi         \* Option<Result<Abi>> of abi::generate

verifyState == <<config, verify_pc, compile_config, compile_called,
                 compilation_result, hash_compared, verification_result,
                 verify_at_result>>

fingerprintState == <<project_root, tree, readdir_order, tree_change,
                      source_hash_before, source_hash_after, fingerprint_pc,
                      source_files>>

buildState == <<build_entry, cli_args, build_config, build_pc, build_locals,
                cargo_started, build_result, cli_result>>

archiveState == <<archive_tree, archive_options, archive_sources, archive_first,
                  archive_second, archive_file, archive_pc>>

sdkState == <<manifest_sdk, contract_metadata, sdk_version_string, sdk_pc>>

concurrentState == <<inv_config, inv_pc, inv_compiled, inv_wasm, target_file>>

interfaceState == <<abi, contract_name, interface, function_selectors,
                    method_identifiers, parsed_routers, generated_abi>>

\* state of the components modelled further down
moreState == <<archiveState, sdkState, concurrentState, interfaceState>>

otherThanVerify == <<fingerprintState, rust_version, buildState, moreState>>

otherThanFingerprint == <<project, verifyState, rust_version, buildState, moreState>>

otherThanToolchain == <<verifyState, fingerprintState, buildState, moreState>>

vars == <<project, verifyState, fingerprintState, rust_version, buildState, moreState>>

----------------------------------------------------------------------------
(* Bounds *)

MaxPad == 1        \* whitespace characters on either side of an expected hash
MaxBody == 2       \* characters of the digest part of an expected hash
MaxByte == 1       \* largest byte value of a source file

----------------------------------------------------------------------------
(* Option / Result *)

None == [some |-> FALSE]
Some(v) == [some |-> TRUE, v |-> v]
Ok(v) == [ok |-> TRUE, v |-> v]
Err(e) == [ok |-> FALSE, e |-> e]

----------------------------------------------------------------------------
(* str helpers used by the code *)

Whitespace == {" ", "\t", "\n"}

RECURSIVE trim_start(_)
trim_start(s) ==
    IF s # <<>> /\ Head(s) \in Whitespace THEN trim_start(Tail(s)) ELSE s

RECURSIVE trim_end(_)
trim_end(s) ==
    IF s # <<>> /\ s[Len(s)] \in Whitespace
    THEN trim_end(SubSeq(s, 1, Len(s) - 1))
    ELSE s

trim(s) == trim_end(trim_start(s))

starts_with(s, p) == Len(s) >= Len(p) /\ SubSeq(s, 1, Len(p)) = p

strip_prefix(s, p) ==
    IF starts_with(s, p) THEN Some(SubSeq(s, Len(p) + 1, Len(s))) ELSE None

unwrap_or(o, d) == IF o.some THEN o.v ELSE d

char_to_lowercase(c) ==
    CASE c = "A" -> "a" [] c = "B" -> "b" [] c = "C" -> "c"
      [] c = "D" -> "d" [] c = "E" -> "e" [] c = "F" -> "f"
      [] c = "X" -> "x"
      [] OTHER -> c

to_lowercase(s) == [i \in 1..Len(s) |-> char_to_lowercase(s[i])]

----------------------------------------------------------------------------
(* verify.rs: hashing and normalisation *)

HexDigits == <<"0", "1", "2", "3", "4", "5", "6", "7",
               "8", "9", "a", "b", "c", "d", "e", "f">>

\* format!("{:x}", digest): two lowercase hex digits per byte
RECURSIVE LowerHex(_)
LowerHex(bytes) ==
    IF bytes = <<>> THEN <<>>
    ELSE <<HexDigits[(Head(bytes) \div 16) + 1], HexDigits[(Head(bytes) % 16) + 1]>>
         \o LowerHex(Tail(bytes))

\* Sha256::digest, collision-free: the digest stands for the bytes hashed
Sha256(bytes) == bytes

calculate_bytecode_hash(bytecode) == LowerHex(Sha256(bytecode))

normalize_hash(hash) ==
    to_lowercase(unwrap_or(strip_prefix(trim(hash), <<"0", "x">>), hash))

----------------------------------------------------------------------------
(* config.rs *)

\* CompileConfig::default() with the project root filled in
CompileConfigDefault(root) ==
    [project_root |-> root,
     profile |-> "release",
     features |-> <<>>,
     no_default_features |-> TRUE,
     cargo_flags |-> <<>>,
     rustflags |-> None,
     artifacts |-> [generate_interface |-> TRUE, generate_abi |-> TRUE,
                    generate_metadata |-> TRUE, pretty_json |-> TRUE]]

\* CompileConfig::validate_project_root: dead code, validate() does not call it
validate_project_root(cfg, p) ==
    IF ~p.root_exists THEN Err("Project root does not exist")
    ELSE IF p.cargo_toml = "missing" THEN Err("No Cargo.toml found in project root")
    ELSE Ok("unit")

\* CompileConfig::validate: the call of validate_project_root is commented out
validate(cfg, p) == Ok("unit")

----------------------------------------------------------------------------
(* compiler.rs: compile() and its steps *)

ContractName == "test-contract"

extract_contract_info(p) ==
    IF ~p.root_exists \/ p.cargo_toml = "missing" THEN Err("Failed to read Cargo.toml")
    ELSE IF p.cargo_toml = "no_package" THEN Err("No [package] section found in Cargo.toml")
    ELSE Ok([name |-> ContractName,
             version |-> "0.1.0",
             sdk_version |-> IF p.cargo_toml = "no_sdk" THEN None ELSE Some("0.1.0")])

\* cargo build subprocess, then find_wasm_output and the read of the .wasm file
compile_to_wasm(cfg, p) ==
    IF p.cargo_build = "exit_nonzero" THEN Err("Cargo build failed")
    ELSE IF p.cargo_build = "no_wasm" THEN Err("Expected WASM file not found")
    ELSE Ok(p.wasm)

find_main_source(p) ==
    IF p.main_source THEN Ok("src/lib.rs")
    ELSE Err("No main source file found. Expected src/lib.rs or src/main.rs")

\* fluentbase_types::compile_wasm_to_rwasm: an external pure function of the
\* WASM bytes; a module starting with byte 0 stands for one it rejects
compile_to_rwasm(wasm_bytecode) ==
    IF Head(wasm_bytecode) = 0 THEN Err("Failed to compile to rWASM")
    ELSE Ok([i \in 1..Len(wasm_bytecode) |-> (wasm_bytecode[i] * 151 + 115) % 256])

RustcVersion == "rustc 1.83.0"

\* compile(): Result<CompileOutput>; only the fields verification reads are kept
compile(cfg, p) ==
    LET v == validate(cfg, p)
        ci == extract_contract_info(p)
        wasm == compile_to_wasm(cfg, p)
        src == find_main_source(p)
        rwasm == compile_to_rwasm(wasm.v)
    IN  IF ~v.ok THEN v
        ELSE IF ~ci.ok THEN ci
        ELSE IF ~ci.v.sdk_version.some
             THEN Err("Not a Fluent contract - no fluentbase-sdk dependency found")
        ELSE IF ~wasm.ok THEN wasm
        ELSE IF ~src.ok THEN src
        ELSE IF ~rwasm.ok THEN rwasm
        ELSE Ok([result |->
                   [contract_info |-> ci.v,
                    outputs |-> [wasm |-> wasm.v, rwasm |-> rwasm.v],
                    build_metadata |->
                        [rustc_version |-> RustcVersion,
                         timestamp |-> p.now,
                         settings |-> [profile |-> cfg.profile,
                                       features |-> cfg.features,
                                       no_default_features |-> cfg.no_default_features,
                                       cargo_flags |-> cfg.cargo_flags,
                                       rustflags |-> cfg.rustflags]]]])

----------------------------------------------------------------------------
(* verify.rs: verify_contract *)

\* build_compile_config: overrides applied field by field, then validate()
build_compile_config(verify_config, p) ==
    LET base == CompileConfigDefault(verify_config.project_root)
        o == verify_config.compile_config_override
        over(field, dflt) == IF o.some /\ o.v[field].some THEN o.v[field].v ELSE dflt
        cfg == [base EXCEPT
                  !.profile = over("profile", @),
                  !.features = over("features", @),
                  !.no_default_features = over("no_default_features", @),
                  !.cargo_flags = over("cargo_flags", @),
                  !.rustflags = IF o.some /\ o.v.rustflags.some
                                THEN Some(o.v.rustflags.v) ELSE @,
                  !.artifacts = [@ EXCEPT !.generate_interface = FALSE,
                                          !.generate_metadata = FALSE,
                                          !.generate_abi = TRUE]]
        v == validate(cfg, p)
    IN  IF v.ok THEN Ok(cfg) ELSE v

Elapsed == "elapsed_ms"

InvalidConfigResult(cfg, e, timestamp) ==
    [status |-> "InvalidConfig",
     contract_name |-> "",
     details |-> [expected_hash |-> cfg.deployed_bytecode_hash,
                  actual_hash |-> None,
                  compiler_version |-> None,
                  sdk_version |-> None,
                  build_profile |-> None,
                  error_message |-> Some(<<"Invalid configuration: ", e>>),
                  compilation_duration_ms |-> None,
                  timestamp |-> timestamp],
     compilation_result |-> None]

\* a compilation failure that would report the expected hash as the actual one
CompilationFailedResultWithHash(cfg, e, timestamp) ==
    [status |-> "CompilationFailed",
     contract_name |-> "",
     details |-> [expected_hash |-> cfg.deployed_bytecode_hash,
                  actual_hash |-> Some(cfg.deployed_bytecode_hash),
                  compiler_version |-> None,
                  sdk_version |-> None,
                  build_profile |-> None,
                  error_message |-> Some(<<"Compilation failed: ", e>>),
                  compilation_duration_ms |-> Some(Elapsed),
                  timestamp |-> timestamp],
     compilation_result |-> None]

\* a compilation failure that would leave the duration out
CompilationFailedResultNoDuration(cfg, e, timestamp) ==
    [status |-> "CompilationFailed",
     contract_name |-> "",
     details |-> [expected_hash |-> cfg.deployed_bytecode_hash,
                  actual_hash |-> None,
                  compiler_version |-> None,
                  sdk_version |-> None,
                  build_profile |-> None,
                  error_message |-> Some(<<"Compilation failed: ", e>>),
                  compilation_duration_ms |-> None,
                  timestamp |-> timestamp],
     compilation_result |-> None]

CompilationFailedResult(cfg, e, timestamp) ==
    [status |-> "CompilationFailed",
     contract_name |-> "",
     details |-> [expected_hash |-> cfg.deployed_bytecode_hash,
                  actual_hash |-> None,
                  compiler_version |-> None,
                  sdk_version |-> None,
                  build_profile |-> None,
                  error_message |-> Some(<<"Compilation failed: ", e>>),
                  compilation_duration_ms |-> Some(Elapsed),
                  timestamp |-> timestamp],
     compilation_result |-> None]

\* a comparison that would take the expected hash as given, not normalised
ComparedResultRawExpected(cfg, out, timestamp) ==
    LET compiled_hash == calculate_bytecode_hash(out.result.outputs.rwasm)
        expected_hash == cfg.deployed_bytecode_hash
        actual_hash == normalize_hash(compiled_hash)
        matches == expected_hash = actual_hash
    IN  [status |-> IF matches THEN "Success" ELSE "BytecodeMismatch",
         contract_name |-> out.result.contract_info.name,
         details |-> [expected_hash |-> expected_hash,
                      actual_hash |-> Some(actual_hash),
                      compiler_version |-> Some(out.result.build_metadata.rustc_version),
                      sdk_version |-> out.result.contract_info.sdk_version,
                      build_profile |-> Some(out.result.build_metadata.settings.profile),
                      error_message |->
                          IF matches THEN None
                          ELSE Some(<<"Bytecode mismatch: expected ", expected_hash,
                                      ", got ", actual_hash>>),
                      compilation_duration_ms |-> Some(Elapsed),
                      timestamp |-> timestamp],
         compilation_result |-> Some(out.result)]

\* lines 201-247: hash of the rebuilt rWASM, normalisation, comparison
ComparedResult(cfg, out, timestamp) ==
    LET compiled_hash == calculate_bytecode_hash(out.result.outputs.rwasm)
        expected_hash == normalize_hash(cfg.deployed_bytecode_hash)
        actual_hash == normalize_hash(compiled_hash)
        matches == expected_hash = actual_hash
    IN  [status |-> IF matches THEN "Success" ELSE "BytecodeMismatch",
         contract_name |-> out.result.contract_info.name,
         details |-> [expected_hash |-> expected_hash,
                      actual_hash |-> Some(actual_hash),
                      compiler_version |-> Some(out.result.build_metadata.rustc_version),
                      sdk_version |-> out.result.contract_info.sdk_version,
                      build_profile |-> Some(out.result.build_metadata.settings.profile),
                      error_message |->
                          IF matches THEN None
                          ELSE Some(<<"Bytecode mismatch: expected ", expected_hash,
                                      ", got ", actual_hash>>),
                      compilation_duration_ms |-> Some(Elapsed),
                      timestamp |-> timestamp],
         compilation_result |-> Some(out.result)]

\* verify_contract, lines 150-177: build the compilation config
VerifyBuildConfig ==
    /\ verify_pc = "start"
    /\ LET r == build_compile_config(config, project)
       IN  IF r.ok
           THEN /\ compile_config' = Some(r.v)
                /\ verify_pc' = "compile"
                /\ UNCHANGED verification_result
           ELSE /\ verification_result' = Some(InvalidConfigResult(config, r.e, project.now))
                /\ verify_pc' = "done"
                /\ UNCHANGED compile_config
    /\ UNCHANGED <<project, config, compile_called, compilation_result,
                   hash_compared, verify_at_result, otherThanVerify>>

\* verify_contract, lines 179-199: compile the contract
VerifyCompile ==
    /\ verify_pc = "compile"
    /\ compile_called' = TRUE
    /\ LET r == compile(compile_config.v, project)
       IN  /\ compilation_result' = Some(r)
           /\ IF r.ok
              THEN /\ verify_pc' = "compare"
                   /\ UNCHANGED verification_result
              ELSE /\ verification_result' =
                         Some(CompilationFailedResult(config, r.e, project.now))
                   /\ verify_pc' = "done"
    /\ UNCHANGED <<project, config, compile_config, hash_compared, verify_at_result,
                   otherThanVerify>>

\* verify_contract, lines 201-248: compare the hashes
VerifyCompare ==
    /\ verify_pc = "compare"
    /\ verification_result' =
           Some(ComparedResult(config, compilation_result.v.v, project.now))
    /\ hash_compared' = TRUE
    /\ verify_pc' = "done"
    /\ UNCHANGED <<project, config, compile_config, compile_called,
                   compilation_result, verify_at_result, otherThanVerify>>

\* lib.rs verify_at: Ok(result.status == VerificationStatus::Success)
VerifyAtReturn ==
    /\ verify_pc = "done"
    /\ verify_at_result' = Some(verification_result.v.status = "Success")
    /\ verify_pc' = "returned"
    /\ UNCHANGED <<project, config, compile_config, compile_called,
                   compilation_result, hash_compared, verification_result,
                   otherThanVerify>>

----------------------------------------------------------------------------
(* Inputs of a verification run *)

BodyChars == {"0", "1", "a", "A"}

RECURSIVE Strings(_, _)
Strings(chars, n) ==
    IF n = 0 THEN {<<>>}
    ELSE LET shorter == Strings(chars, n - 1)
         IN  shorter \cup {<<c>> \o s : c \in chars, s \in {t \in shorter : Len(t) = n - 1}}

Pad(n) == [i \in 1..n |-> " "]

HashPrefixes == {<<>>, <<"0", "x">>, <<"0", "X">>}

\* textual forms an expected hash arrives in: padding, prefix, digits
HashInputs ==
    {Pad(i) \o pre \o body \o Pad(j) :
        i \in 0..MaxPad, j \in 0..MaxPad, pre \in HashPrefixes,
        body \in Strings(BodyChars, MaxBody)}

WasmOutputs == {<<0>>, <<1>>, <<2>>}

\* a callable method of a router: its name and what
\* parsed_signature().function_abi() and to_json_value() give for it
RouterMethod(name, converts) ==
    [name |-> name,
     function_abi |-> IF converts THEN Ok([name |-> name, type |-> "function"])
                      ELSE Err("unsupported type")]

DefaultRouter == <<RouterMethod("transfer", TRUE)>>

DefaultProject ==
    [root_exists |-> TRUE, cargo_toml |-> "ok", cargo_build |-> "ok",
     main_source |-> TRUE, wasm |-> <<1>>, now |-> 1,
     cargo_lock |-> "registry", cargo_resolves |-> None, git |-> Ok(None),
     rust_toolchain_toml |-> Some([parses |-> TRUE, channel |-> Some(<<"1.83.0">>)]),
     rust_toolchain |-> None,
     cargo_output |-> [stdout |-> "Compiling test-contract v0.1.0",
                       stderr |-> "error: could not compile test-contract"],
     parse_routers |-> Ok(<<DefaultRouter>>)]

\* a missing root has no files; later steps only matter when earlier ones pass
VerifyProjects ==
    {[DefaultProject EXCEPT !.root_exists = FALSE, !.cargo_toml = "missing"]}
    \cup {[DefaultProject EXCEPT !.cargo_toml = t] : t \in {"missing", "no_package", "no_sdk"}}
    \cup {[DefaultProject EXCEPT !.cargo_build = b] : b \in {"exit_nonzero", "no_wasm"}}
    \cup {[DefaultProject EXCEPT !.main_source = FALSE]}
    \cup {[DefaultProject EXCEPT !.wasm = w] : w \in WasmOutputs}

Clock == {1, 2}

NoOverride ==
    [rustc_version |-> None, sdk_version |-> None, profile |-> None,
     features |-> None, no_default_features |-> None, cargo_flags |-> None,
     rustflags |-> None]

Overrides ==
    {None, Some(NoOverride),
     Some([NoOverride EXCEPT !.profile = Some("debug"),
                             !.no_default_features = Some(FALSE)])}

\* a value for every field of CompileConfigOverride
FullOverride ==
    [rustc_version |-> Some("rustc 1.75.0"), sdk_version |-> Some("0.2.0"),
     profile |-> Some("debug"), features |-> Some(<<"extra">>),
     no_default_features |-> Some(FALSE), cargo_flags |-> Some(<<"--offline">>),
     rustflags |-> Some("-C opt-level=3")]

\* overrides that supply any subset of the fields
OverrideCases ==
    {None} \cup
    {Some([f \in DOMAIN FullOverride |->
              IF f \in supplied THEN FullOverride[f] ELSE None]) :
        supplied \in SUBSET DOMAIN FullOverride}

----------------------------------------------------------------------------
(* builder.rs: source fingerprint *)

\* A file or directory name is the sequence of its dot-separated parts:
\* lib.rs is <<"lib", "rs">>, .git is <<"", "git">>, target is <<"target">>.
\* A path is a sequence of names.

\* str::starts_with('.')
starts_with_dot(name) == Len(name) >= 2 /\ name[1] = ""

\* Path::extension: the part after the last dot, unless the only dot leads
extension(name) ==
    IF Len(name) >= 2 /\ ~(Len(name) = 2 /\ name[1] = "")
    THEN Some(name[Len(name)]) ELSE None

INCLUDE_EXTENSIONS == {"rs"}

INCLUDE_FILES == {<<"Cargo", "toml">>, <<"Cargo", "lock">>,
                  <<"rust-toolchain", "toml">>, <<"rust-toolchain">>}

\* should_skip_path: any component of the path handed in by the walk
should_skip_path(path) ==
    \E k \in 1..Len(path) :
        path[k] = <<"target">> \/ path[k] = <<"out">> \/ starts_with_dot(path[k])

should_include(path) ==
    LET name == path[Len(path)]
    IN  \/ (extension(name).some /\ extension(name).v \in INCLUDE_EXTENSIONS)
        \/ name \in INCLUDE_FILES

\* the loop of calculate_source_hash: entries arrive in the walk's order and
\* each kept file is fed to the hasher as it arrives
RECURSIVE hasher_update(_, _, _)
hasher_update(root, files, walk) ==
    IF walk = <<>> THEN <<>>
    ELSE LET path == root \o Head(walk)
             fed == IF ~should_skip_path(path) /\ should_include(path)
                    THEN files[Head(walk)] ELSE <<>>
         IN  fed \o hasher_update(root, files, Tail(walk))

calculate_source_hash(root, files, walk) ==
    LowerHex(Sha256(hasher_update(root, files, walk)))

----------------------------------------------------------------------------
(* Fingerprinting scenario: hash, then copy the tree or change a file, hash again *)

CargoToml == <<<<"Cargo", "toml">>>>
SrcLib == <<<<"src">>, <<"lib", "rs">>>>
TargetGen == <<<<"target">>, <<"gen", "rs">>>>
Readme == <<<<"README", "md">>>>

TreePaths == {CargoToml, SrcLib, TargetGen, Readme}

Bytes == 0..MaxByte

FileContents == {<<b>> : b \in Bytes}

\* project roots: an ordinary one, a temporary directory, one below a
\* directory called target
ProjectRoots ==
    {<<<<"home">>, <<"dev">>, <<"contract">>>>,
     <<<<"tmp">>, <<"", "tmpAb12">>>>,
     <<<<"work">>, <<"target">>, <<"contract">>>>}

\* every subdirectory of the tree holds one file, so each order of the files
\* is an order some directory iteration yields
WalkOrders ==
    {w \in [1..Cardinality(TreePaths) -> TreePaths] :
        \A a, b \in 1..Cardinality(TreePaths) : a # b => w[a] # w[b]}

\* the file set the fingerprint is meant to cover, relative to the project
IncludedInProject(rel) == ~should_skip_path(rel) /\ should_include(rel)

CalculateSourceHash ==
    /\ fingerprint_pc \in {"start", "changed"}
    /\ LET h == calculate_source_hash(project_root, tree, readdir_order)
       IN  IF fingerprint_pc = "start"
           THEN /\ source_hash_before' = Some(h)
                /\ fingerprint_pc' = "hashed"
                /\ UNCHANGED source_hash_after
           ELSE /\ source_hash_after' = Some(h)
                /\ fingerprint_pc' = "done"
                /\ UNCHANGED source_hash_before
    /\ UNCHANGED <<project_root, tree, readdir_order, tree_change, source_files,
                   otherThanFingerprint>>

\* an identical copy of the tree whose directories iterate in another order
CopyTree ==
    /\ fingerprint_pc = "hashed"
    /\ \E w \in WalkOrders : w # readdir_order /\ readdir_order' = w
    /\ tree_change' = [kind |-> "copied"]
    /\ fingerprint_pc' = "changed"
    /\ UNCHANGED <<project_root, tree, source_hash_before, source_hash_after,
                   source_files, otherThanFingerprint>>

\* one byte of one file is replaced by a different byte
ModifyFile ==
    /\ fingerprint_pc = "hashed"
    /\ \E f \in TreePaths, b \in Bytes :
        \E i \in 1..Len(tree[f]) :
          /\ b # tree[f][i]
          /\ tree' = [tree EXCEPT ![f][i] = b]
          /\ tree_change' = [kind |-> "modified", path |-> f]
    /\ fingerprint_pc' = "changed"
    /\ UNCHANGED <<project_root, readdir_order, source_hash_before,
                   source_hash_after, source_files, otherThanFingerprint>>

----------------------------------------------------------------------------
(* builder.rs: toolchain resolution *)

\* A channel is a sequence of tokens: nightly-2024-01-15 is
\* <<"nightly", "-2024-01-15">>; blanks and newlines are tokens of their own.

\* a validation that would reject only the empty channel
validate_rust_version_nonempty(channel) ==
    IF channel = <<>> THEN Err("Rust toolchain channel cannot be empty")
    ELSE Ok("unit")

\* validate_rust_version
validate_rust_version(channel) ==
    IF channel = <<>> THEN Err("Rust toolchain channel cannot be empty")
    ELSE IF channel \in {<<"stable">>, <<"beta">>, <<"nightly">>}
         THEN Err("Rust toolchain must specify a pinned version for reproducible builds")
    ELSE Ok("unit")

\* read_rust_toolchain_version: rust-toolchain.toml first, then the legacy file
read_rust_toolchain_version(p) ==
    IF p.rust_toolchain_toml.some
    THEN LET toml == p.rust_toolchain_toml.v
         IN  IF ~toml.parses THEN Err("TOML parse error")
             ELSE IF ~toml.channel.some
                  THEN Err("Invalid rust-toolchain.toml: missing [toolchain].channel")
             ELSE IF ~validate_rust_version(toml.channel.v).ok
                  THEN validate_rust_version(toml.channel.v)
             ELSE Ok(toml.channel.v)
    ELSE IF p.rust_toolchain.some
    THEN LET channel == trim(p.rust_toolchain.v)
         IN  IF ~validate_rust_version(channel).ok
             THEN validate_rust_version(channel)
             ELSE Ok(channel)
    ELSE Err("No rust-toolchain.toml found in project root")

\* a caller (detect_project_versions, build) resolves the toolchain
ReadRustToolchainVersion ==
    /\ rust_version = None
    /\ build_pc = "idle"
    /\ rust_version' = Some(read_rust_toolchain_version(project))
    /\ UNCHANGED <<project, otherThanToolchain>>

FloatingChannels == {<<"stable">>, <<"beta">>, <<"nightly">>}

PinnedChannels == {<<"1.83.0">>, <<"nightly", "-2024-01-15">>}

ChannelPads == {<<>>, <<" ">>, <<"\n">>}

\* what a pin file may say: a channel, possibly surrounded by white space
ChannelTexts ==
    {pre \o ch \o post :
        pre \in ChannelPads, post \in ChannelPads,
        ch \in FloatingChannels \cup PinnedChannels \cup {<<>>}}

TomlFiles ==
    {None, Some([parses |-> FALSE, channel |-> None]),
     Some([parses |-> TRUE, channel |-> None])}
    \cup {Some([parses |-> TRUE, channel |-> Some(c)]) : c \in ChannelTexts}

LegacyFiles == {None} \cup {Some(c) : c \in ChannelTexts}

----------------------------------------------------------------------------
(* git.rs and builder.rs: the steps of build() *)

\* detect_git_info: Err, Ok(None) outside a repository, or Ok(Some(GitInfo))
detect_git_info(p) == p.git

\* parse_contract_info
parse_contract_info(p) ==
    IF ~p.root_exists \/ p.cargo_toml = "missing" THEN Err("Failed to read Cargo.toml")
    ELSE IF p.cargo_toml = "no_package" THEN Err("No [package] section in Cargo.toml")
    ELSE IF p.cargo_toml = "no_sdk"
         THEN Err("Not a Fluent contract: no fluentbase-sdk dependency found in Cargo.toml")
    ELSE Ok([name |-> ContractName, version |-> "0.1.0"])

\* read_sdk_version_from_cargo_lock: the version, with the first eight
\* characters of the commit appended when the package source is a git one
read_sdk_version_from_cargo_lock(p) ==
    IF ~p.root_exists \/ p.cargo_lock = "missing" THEN Err("Cargo.lock not found")
    ELSE IF p.cargo_lock = "invalid" THEN Err("Invalid Cargo.lock format")
    ELSE IF p.cargo_lock = "no_sdk" THEN Err("fluentbase-sdk not found in Cargo.lock")
    ELSE IF p.cargo_lock = "git" THEN Ok(<<"0.1.0", "-", "a1b2c3d4">>)
    ELSE Ok(<<"0.1.0">>)

\* parse_sdk_version: split at the first '-'
parse_sdk_version(version) ==
    IF \E k \in 1..Len(version) : version[k] = "-"
    THEN LET k == CHOOSE k \in 1..Len(version) :
                     /\ version[k] = "-"
                     /\ \A j \in 1..(k - 1) : version[j] # "-"
         IN  [tag |-> SubSeq(version, 1, k - 1),
              commit |-> SubSeq(version, k + 1, Len(version))]
    ELSE [tag |-> version, commit |-> <<"unknown">>]

\* an error whose message interpolates texts handed over by a collaborator
ErrWith(e, context) == [ok |-> FALSE, e |-> e, context |-> context]

\* the Cargo.lock that cargo build leaves behind: without --locked a lock
\* file that no longer matches the manifest is resolved again and rewritten
cargo_build_lock(cfg, p) ==
    IF ~cfg.locked /\ p.cargo_resolves.some THEN p.cargo_resolves.v ELSE p.cargo_lock

\* builder.rs compile_to_wasm: cargo build, then the read of the .wasm file;
\* the error of a failed build is "Cargo build failed:\n{stderr}"; with
\* --locked cargo exits with an error when the lock file needs an update
builder_compile_to_wasm(cfg, p) ==
    IF p.cargo_build = "exit_nonzero" \/ (cfg.locked /\ p.cargo_resolves.some)
    THEN ErrWith("Cargo build failed", <<p.cargo_output.stderr>>)
    ELSE IF p.cargo_build = "no_wasm" THEN Err("Expected WASM file not found")
    ELSE Ok(p.wasm)

\* what fluentbase_types::compile_wasm_to_rwasm says about a module it rejects
TransformerDiagnostic == "MalformedModule"

\* builder.rs compile_to_rwasm: "rWASM compilation failed: {:?}"
builder_compile_to_rwasm(wasm_bytecode) ==
    LET result == compile_to_rwasm(wasm_bytecode)
    IN  IF ~result.ok THEN ErrWith("rWASM compilation failed", <<TransformerDiagnostic>>)
        ELSE result

\* utils::hash_bytes
hash_bytes(data) == LowerHex(Sha256(data))

\* the "sha256:" in front of the digests of the metadata
Sha256Tag == <<"s", "h", "a", "2", "5", "6", ":">>

\* the bytes of Cargo.lock, one file per state of the lock
cargo_lock_content(lock) ==
    CASE lock = "registry" -> <<1>>
      [] lock = "git" -> <<2>>
      [] lock = "no_sdk" -> <<3>>
      [] OTHER -> <<4>>

\* artifacts/mod.rs calculate_cargo_lock_hash
calculate_cargo_lock_hash(p) ==
    IF ~p.root_exists \/ p.cargo_lock = "missing" THEN Ok(<<"no-cargo-lock">>)
    ELSE Ok(hash_bytes(cargo_lock_content(p.cargo_lock)))

\* the source files of a project together with its Cargo.lock
project_files(p, files) ==
    IF ~p.root_exists \/ p.cargo_lock = "missing" THEN files
    ELSE [f \in DOMAIN files \cup {<<<<"Cargo", "lock">>>>} |->
            IF f = <<<<"Cargo", "lock">>>> THEN cargo_lock_content(p.cargo_lock)
            ELSE files[f]]

\* the directory iteration meets Cargo.lock first, when there is one
project_walk(p, walk) ==
    IF ~p.root_exists \/ p.cargo_lock = "missing" THEN walk
    ELSE <<<<<<"Cargo", "lock">>>>>> \o walk

\* create_metadata: format!("sha256:{}", hash_bytes(bytes)), size, path
artifact_info(bytes, path) ==
    [hash |-> Sha256Tag \o hash_bytes(bytes),
     size |-> Len(bytes),
     path |-> path]

\* parser::parse_routers(&main_source).unwrap_or_else(|e| { warn!; vec![] })
parse_routers_or_empty(p) ==
    IF p.parse_routers.ok THEN p.parse_routers.v ELSE <<>>

\* artifacts::abi::generate: no router gives the empty ABI; otherwise the
\* descriptors of the methods of the first router whose conversion succeeds
abi_generate(routers) ==
    IF routers = <<>> THEN Ok(<<>>)
    ELSE LET router == routers[1]
             converted == SelectSeq(router, LAMBDA method : method.function_abi.ok)
         IN  Ok([i \in DOMAIN converted |-> converted[i].function_abi.v])

\* builder.rs find_main_source
builder_find_main_source(p) ==
    IF p.main_source THEN Ok("src/lib.rs") ELSE Err("No main source file found")

should_generate_artifacts(artifacts) ==
    artifacts.generate_abi \/ artifacts.generate_interface \/ artifacts.generate_metadata

ProjectPathInRepo == "."

\* a provenance choice that would not look at is_dirty
determine_source_type_any_tree(root, git_info) ==
    IF git_info.some
    THEN [kind |-> "Git",
          repository |-> git_info.v.remote_url,
          commit |-> git_info.v.commit_hash,
          project_path |-> ProjectPathInRepo]
    ELSE [kind |-> "Archive",
          archive_path |-> "./source.tar.gz",
          project_path |-> "."]

\* determine_source_type
determine_source_type(root, git_info) ==
    IF git_info.some /\ ~git_info.v.is_dirty
    THEN [kind |-> "Git",
          repository |-> git_info.v.remote_url,
          commit |-> git_info.v.commit_hash,
          project_path |-> ProjectPathInRepo]
    ELSE [kind |-> "Archive",
          archive_path |-> "./source.tar.gz",
          project_path |-> "."]

\* generate_contract_artifacts: main source, routers, provenance, artifacts
generate_contract_artifacts(locals, cfg, p) ==
    LET src == builder_find_main_source(p)
    IN  IF ~src.ok THEN src
        ELSE Ok([abi |-> abi_generate(parse_routers_or_empty(p)).v,
                 interface |-> <<>>,
                 metadata |->
                    [schema_version |-> 1,
                     contract |-> locals.contract,
                     source |-> determine_source_type(cfg.project_root, locals.git_info),
                     compilation_settings |-> [sdk |-> locals.sdk],
                     built_at |-> p.now,
                     dependencies |->
                        [cargo_lock_hash |-> Sha256Tag \o calculate_cargo_lock_hash(p).v],
                     bytecode |-> [wasm |-> artifact_info(locals.wasm, "lib.wasm"),
                                   rwasm |-> artifact_info(locals.rwasm, "lib.rwasm")],
                     source_tree_hash |-> Sha256Tag \o locals.source_tree_hash]])

NoLocals ==
    [contract |-> None, sdk |-> None, git_info |-> None, wasm |-> <<>>,
     rwasm |-> <<>>, source_tree_hash |-> <<>>]

BuildFail(e) ==
    /\ build_result' = Some(e)
    /\ build_pc' = "build_done"

buildFrame == <<project, verifyState, fingerprintState, moreState>>

\* build(), lines 74-79: validate, parse_contract_info
BuildParseContractInfo ==
    /\ build_pc = "build_parse"
    /\ LET v == validate(build_config.v, project)
           c == parse_contract_info(project)
       IN  IF ~v.ok THEN BuildFail(v) /\ UNCHANGED build_locals
           ELSE IF ~c.ok THEN BuildFail(c) /\ UNCHANGED build_locals
           ELSE /\ build_locals' = [build_locals EXCEPT !.contract = c.v]
                /\ build_pc' = "build_sdk"
                /\ UNCHANGED build_result
    /\ UNCHANGED <<build_entry, cli_args, build_config, cargo_started, cli_result,
                   rust_version, buildFrame>>

\* build(), lines 81-83: SDK version from Cargo.lock
BuildReadSdkVersion ==
    /\ build_pc = "build_sdk"
    /\ LET v == read_sdk_version_from_cargo_lock(project)
       IN  IF ~v.ok THEN BuildFail(v) /\ UNCHANGED build_locals
           ELSE /\ build_locals' = [build_locals EXCEPT !.sdk = parse_sdk_version(v.v)]
                /\ build_pc' = "build_git"
                /\ UNCHANGED build_result
    /\ UNCHANGED <<build_entry, cli_args, build_config, cargo_started, cli_result,
                   rust_version, buildFrame>>

\* build(), lines 92-94: repository status
BuildDetectGit ==
    /\ build_pc = "build_git"
    /\ LET g == detect_git_info(project)
       IN  IF ~g.ok THEN BuildFail(g) /\ UNCHANGED build_locals
           ELSE /\ build_locals' = [build_locals EXCEPT !.git_info = g.v]
                /\ build_pc' = "build_wasm"
                /\ UNCHANGED build_result
    /\ UNCHANGED <<build_entry, cli_args, build_config, cargo_started, cli_result,
                   rust_version, buildFrame>>

\* build(), lines 96-98: the cargo build subprocess
BuildCompileToWasm ==
    /\ build_pc = "build_wasm"
    /\ cargo_started' = TRUE
    /\ project' = [project EXCEPT !.cargo_lock = cargo_build_lock(build_config.v, project)]
    /\ LET w == builder_compile_to_wasm(build_config.v, project)
       IN  IF ~w.ok THEN BuildFail(w) /\ UNCHANGED build_locals
           ELSE /\ build_locals' = [build_locals EXCEPT !.wasm = w.v]
                /\ build_pc' = "build_rwasm"
                /\ UNCHANGED build_result
    /\ UNCHANGED <<build_entry, cli_args, build_config, cli_result,
                   rust_version, verifyState, fingerprintState, moreState>>

\* build(), lines 100-102: WASM to rWASM
BuildCompileToRwasm ==
    /\ build_pc = "build_rwasm"
    /\ LET r == builder_compile_to_rwasm(build_locals.wasm)
       IN  IF ~r.ok THEN BuildFail(r) /\ UNCHANGED build_locals
           ELSE /\ build_locals' = [build_locals EXCEPT !.rwasm = r.v]
                /\ build_pc' = "build_toolchain"
                /\ UNCHANGED build_result
    /\ UNCHANGED <<build_entry, cli_args, build_config, cargo_started, cli_result,
                   rust_version, buildFrame>>

\* build(), lines 104-109: Rust version from the toolchain pin
BuildReadToolchain ==
    /\ build_pc = "build_toolchain"
    /\ LET r == read_rust_toolchain_version(project)
       IN  /\ rust_version' = Some(r)
           /\ IF ~r.ok THEN BuildFail(r)
              ELSE build_pc' = "build_hash" /\ UNCHANGED build_result
    /\ UNCHANGED <<build_entry, cli_args, build_config, build_locals, cargo_started,
                   cli_result, buildFrame>>

\* build(), lines 111-117: runtime info with the source tree hash
BuildSourceHash ==
    /\ build_pc = "build_hash"
    /\ build_locals' = [build_locals EXCEPT !.source_tree_hash =
                           calculate_source_hash(project_root,
                                                 project_files(project, tree),
                                                 project_walk(project, readdir_order))]
    /\ build_pc' = "build_artifacts"
    /\ UNCHANGED <<build_entry, cli_args, build_config, cargo_started, build_result,
                   cli_result, rust_version, buildFrame>>

\* build(), lines 119-147: artifacts when requested, then the result
BuildGenerateArtifacts ==
    /\ build_pc = "build_artifacts"
    /\ LET a == IF should_generate_artifacts(build_config.v.artifacts)
                THEN generate_contract_artifacts(build_locals, build_config.v, project)
                ELSE Ok(None)
       IN  IF ~a.ok THEN build_result' = Some(a)
           ELSE build_result' =
                  Some(Ok([contract |-> build_locals.contract,
                           outputs |-> [wasm |-> build_locals.wasm,
                                        rwasm |-> build_locals.rwasm],
                           artifacts |-> IF a.v = None THEN None ELSE Some(a.v),
                           runtime_info |->
                               [rust |-> [version |-> rust_version.v.v,
                                          target |-> "wasm32-unknown-unknown"],
                                sdk |-> build_locals.sdk,
                                built_at |-> project.now,
                                source_tree_hash |-> build_locals.source_tree_hash]]))
    /\ build_pc' = "build_done"
    /\ UNCHANGED <<build_entry, cli_args, build_config, build_locals, cargo_started,
                   cli_result, rust_version, buildFrame>>

\* the metadata of a finished build is read and its bytecode.rwasm.hash is
\* handed to verify_contract as the expected hash, for the same project
VerifyAgainstMetadata ==
    /\ verify_pc = "idle"
    /\ build_result.some
    /\ build_result.v.ok
    /\ build_result.v.v.artifacts.some
    /\ config' = [config EXCEPT !.deployed_bytecode_hash =
                      build_result.v.v.artifacts.v.metadata.bytecode.rwasm.hash]
    /\ verify_pc' = "start"
    /\ UNCHANGED <<project, compile_config, compile_called, compilation_result,
                   hash_compared, verification_result, verify_at_result,
                   otherThanVerify>>

----------------------------------------------------------------------------
(* main.rs: run_compile in front of build() *)

CliFail(e) ==
    /\ cli_result' = Some(Err(e))
    /\ build_pc' = "exited"

\* run_compile, lines 285-294: canonicalize, detect_project_versions
CliDetectVersions ==
    /\ build_pc = "cli_start"
    /\ LET rv == read_rust_toolchain_version(project)
           sv == read_sdk_version_from_cargo_lock(project)
       IN  IF ~project.root_exists
           THEN CliFail("Failed to resolve project path") /\ UNCHANGED rust_version
           ELSE /\ rust_version' = Some(rv)
                /\ IF ~rv.ok THEN CliFail(rv.e)
                   ELSE IF ~sv.ok THEN CliFail(sv.e)
                   ELSE /\ build_pc' = IF cli_args.no_docker THEN "cli_git" ELSE "cli_docker"
                        /\ UNCHANGED cli_result
    /\ UNCHANGED <<build_entry, cli_args, build_config, build_locals, cargo_started,
                   build_result, buildFrame>>

\* run_compile, lines 296-312, and docker.rs run_in_docker_container: the
\* same command runs again inside the container with --no-docker appended
CliRunInDocker ==
    /\ build_pc = "cli_docker"
    /\ cli_args' = [cli_args EXCEPT !.no_docker = TRUE]
    /\ build_pc' = "cli_start"
    /\ rust_version' = None
    /\ UNCHANGED <<build_entry, build_config, build_locals, cargo_started,
                   build_result, cli_result, buildFrame>>

\* run_compile, lines 316-356: repository status, the dirty-tree gate, and
\* the provenance preference
CliCheckGit ==
    /\ build_pc = "cli_git"
    /\ LET g == detect_git_info(project)
       IN  IF ~g.ok THEN CliFail(g.e) /\ UNCHANGED build_config
           ELSE IF ~cli_args.allow_dirty /\ ~g.v.some
                THEN CliFail("Project is not in a Git repository") /\ UNCHANGED build_config
           ELSE IF ~cli_args.allow_dirty /\ g.v.v.is_dirty
                THEN CliFail("Repository has uncommitted changes") /\ UNCHANGED build_config
           ELSE /\ build_config' =
                      Some([build_config.v EXCEPT !.use_git_source =
                              g.v.some /\ ~cli_args.allow_dirty /\ ~g.v.v.is_dirty])
                /\ build_pc' = "build_parse"
                /\ UNCHANGED cli_result
    /\ UNCHANGED <<build_entry, cli_args, build_locals, cargo_started, build_result,
                   rust_version, buildFrame>>

\* output_json_results: the source_type field of the printed SuccessData
output_json_results(use_git_source) ==
    [source_type |-> IF use_git_source THEN "git" ELSE "archive"]

\* run_compile, lines 358-369: the outcome of build() becomes the command's,
\* and a successful build is printed
CliFinish ==
    /\ build_pc = "build_done"
    /\ build_entry = "cli"
    /\ cli_result' = Some(IF build_result.v.ok
                          THEN Ok(output_json_results(build_config.v.use_git_source))
                          ELSE Err(<<"Compilation failed", build_result.v.e>>))
    /\ build_pc' = "exited"
    /\ UNCHANGED <<build_entry, cli_args, build_config, build_locals, cargo_started,
                   build_result, rust_version, buildFrame>>

----------------------------------------------------------------------------
(* Inputs of a build *)

GitInfos ==
    {[remote_url |-> r, commit_hash |-> c, is_dirty |-> d,
      dirty_files_count |-> IF d THEN 1 ELSE 0] :
        r \in {"", "https://github.com/user/repo.git"},
        c \in {"c0ffee00", "deadbeef"},
        d \in BOOLEAN}

GitStates ==
    {Err("Failed to get commit hash"), Ok(None)} \cup {Ok(Some(g)) : g \in GitInfos}

\* pin files of a build: a pinned or floating rust-toolchain.toml, a legacy
\* file alone, or neither
BuildToolchains ==
    {<<Some([parses |-> TRUE, channel |-> Some(<<"1.83.0">>)]), None>>,
     <<Some([parses |-> TRUE, channel |-> Some(<<"stable">>)]), None>>,
     <<None, Some(<<"nightly", "-2024-01-15", "\n">>)>>,
     <<None, Some(<<"nightly", "\n">>)>>,
     <<None, None>>}

\* what can be wrong with the project, one thing at a time
BuildFaults ==
    {DefaultProject,
     [DefaultProject EXCEPT !.root_exists = FALSE, !.cargo_toml = "missing",
                            !.cargo_lock = "missing"]}
    \cup {[DefaultProject EXCEPT !.cargo_toml = t] : t \in {"missing", "no_package", "no_sdk"}}
    \cup {[DefaultProject EXCEPT !.cargo_lock = l] : l \in {"missing", "no_sdk", "git"}}
    \cup {[DefaultProject EXCEPT !.cargo_resolves = Some("git")],
          [DefaultProject EXCEPT !.cargo_lock = "git", !.cargo_resolves = Some("registry")]}
    \cup {[DefaultProject EXCEPT !.cargo_build = c] : c \in {"exit_nonzero", "no_wasm"}}
    \cup {[DefaultProject EXCEPT !.wasm = <<0>>], [DefaultProject EXCEPT !.main_source = FALSE]}
    \cup {[DefaultProject EXCEPT !.parse_routers = Err("Router parsing error: expected fn")]}

BuildProjects ==
    {[f EXCEPT !.git = g, !.rust_toolchain_toml = t[1], !.rust_toolchain = t[2]] :
        f \in BuildFaults, g \in GitStates, t \in BuildToolchains}

BuildRoot == <<<<"home">>, <<"dev">>, <<"contract">>>>

BuildConfigNew(root) ==
    [project_root |-> root,
     profile |-> "release",
     features |-> <<>>,
     no_default_features |-> TRUE,
     locked |-> FALSE,
     use_git_source |-> FALSE,
     artifacts |-> [generate_interface |-> TRUE, generate_abi |-> TRUE,
                    generate_metadata |-> TRUE, pretty_json |-> TRUE]]

----------------------------------------------------------------------------
(* archive.rs: source archive for verification *)

CargoLock == <<<<"Cargo", "lock">>>>
RustToolchainToml == <<<<"rust-toolchain", "toml">>>>
RustToolchainFile == <<<<"rust-toolchain">>>>
GitignoreFile == <<<<"", "gitignore">>>>
DepCacheFile == <<<<"", "cargo">>, <<"registry">>, <<"dep", "rs">>>>

\* the key "_aggregate" of the recorded sources
Aggregate == <<<<"_aggregate">>>>

\* the files a project may hold, in ascending order of Path
\* the manifest of a nested crate
NestedCargoToml == <<<<"Abi">>, <<"Cargo", "toml">>>>

ArchivePathsAscending ==
    <<DepCacheFile, GitignoreFile, NestedCargoToml, CargoLock, CargoToml, Readme,
      RustToolchainFile, RustToolchainToml, SrcLib, TargetGen>>

ArchivePaths == {ArchivePathsAscending[i] : i \in 1..Len(ArchivePathsAscending)}

\* Path::join
join(root, rel) == root \o rel

\* BTreeSet<PathBuf>::into_iter().collect(): the paths in ascending order
btree_into_iter(root, files) ==
    SelectSeq([i \in 1..Len(ArchivePathsAscending) |-> join(root, ArchivePathsAscending[i])],
              LAMBDA f : f \in files)

\* is_valid_source_file: extension rs, or the file name Cargo.toml / Cargo.lock
is_valid_source_file(path) ==
    LET name == path[Len(path)]
    IN  \/ (extension(name).some /\ extension(name).v = "rs")
        \/ name \in {<<"Cargo", "toml">>, <<"Cargo", "lock">>}

\* load_gitignore_rules: the patterns of .gitignore, when the file exists
load_gitignore_rules(t) ==
    IF join(t.root, GitignoreFile) \in DOMAIN t.files
    THEN Some(t.files[join(t.root, GitignoreFile)].data)
    ELSE None

\* Gitignore::matched(path, is_dir).is_ignore(): a pattern is matched against
\* the path itself, never against its parent directories; target/ matches
\* directories only
gitignore_matched(rules, path, is_dir) ==
    \E k \in 1..Len(rules) :
        \/ rules[k] = "target/" /\ is_dir /\ path[Len(path)] = <<"target">>
        \/ rules[k] = "Cargo.lock" /\ path[Len(path)] = <<"Cargo", "lock">>

\* collect_files_to_archive (directories yielded by the walk are never files
\* and add nothing, they are left out of the walk)
collect_files_to_archive(t, options, sources, gitignore) ==
    LET selected ==
            IF options.only_compilation_files /\ sources.some
            THEN {join(t.root, sp) : sp \in
                    {x \in sources.v : /\ x # Aggregate
                                       /\ join(t.root, x) \in DOMAIN t.files
                                       /\ is_valid_source_file(join(t.root, x))}}
            ELSE {f \in DOMAIN t.files :
                    /\ ~(gitignore.some /\ gitignore_matched(gitignore.v, f, FALSE))
                    /\ is_valid_source_file(f)}
        cargo_toml == join(t.root, CargoToml)
        cargo_lock == join(t.root, CargoLock)
    IN  IF cargo_toml \notin DOMAIN t.files
        THEN Err("Cargo.toml not found in project root")
        ELSE Ok(btree_into_iter(t.root,
                    selected \cup {cargo_toml}
                    \cup (IF cargo_lock \in DOMAIN t.files THEN {cargo_lock} ELSE {})))

\* file_path.strip_prefix(project_root).unwrap_or(file_path)
relative_path(root, file_path) == unwrap_or(strip_prefix(file_path, root), file_path)

\* the first archived path whose file name is Cargo.toml, "" when there is none
RECURSIVE cargo_toml_path(_, _)
cargo_toml_path(root, files) ==
    IF files = <<>> THEN <<>>
    ELSE LET rel == relative_path(root, Head(files))
         IN  IF rel[Len(rel)] = <<"Cargo", "toml">> THEN rel
             ELSE cargo_toml_path(root, Tail(files))

\* add_files_to_tar: append_path_with_name writes for each file a header taken
\* from the file's metadata (its modification time among it) and its bytes
add_files_to_tar(t, files) ==
    [i \in 1..Len(files) |->
        [name |-> relative_path(t.root, files[i]),
         mtime |-> t.files[files[i]].mtime,
         data |-> t.files[files[i]].data]]

\* the loop of create_zip_archive: start_file(path_str, options), write_all
add_files_to_zip(t, files) ==
    [i \in 1..Len(files) |->
        [name |-> relative_path(t.root, files[i]),
         data |-> t.files[files[i]].data]]

\* calculate_archive_info: SHA-256 of the archive file, number of files
calculate_archive_info(path, content, file_count, toml_path) ==
    Ok([path |-> path,
        hash |-> Sha256(content),
        file_count |-> file_count,
        cargo_toml_path |-> toml_path])

\* create_tar_gz_archive; the result and the file written
create_tar_gz_archive(t, output_path, files, compression_level) ==
    LET content == [format |-> "TarGz", level |-> compression_level,
                    entries |-> add_files_to_tar(t, files)]
    IN  IF cargo_toml_path(t.root, files) = <<>>
        THEN [result |-> Err("No Cargo.toml found in archived files"),
              file |-> Some(content)]
        ELSE [result |-> calculate_archive_info(output_path, content, Len(files),
                                                cargo_toml_path(t.root, files)),
              file |-> Some(content)]

\* create_zip_archive
create_zip_archive(t, output_path, files, compression_level) ==
    LET content == [format |-> "Zip", level |-> compression_level,
                    entries |-> add_files_to_zip(t, files)]
    IN  [result |-> calculate_archive_info(output_path, content, Len(files),
                                           cargo_toml_path(t.root, files)),
         file |-> Some(content)]

\* create_verification_archive
create_verification_archive(t, output_path, options, sources) ==
    LET gitignore == IF options.respect_gitignore THEN load_gitignore_rules(t) ELSE None
        files_to_include == collect_files_to_archive(t, options, sources, gitignore)
    IN  IF ~files_to_include.ok THEN [result |-> files_to_include, file |-> None]
        ELSE IF files_to_include.v = <<>>
             THEN [result |-> Err("No source files found to archive"), file |-> None]
        ELSE IF options.format = "TarGz"
             THEN create_tar_gz_archive(t, output_path, files_to_include.v,
                                        options.compression_level)
             ELSE create_zip_archive(t, output_path, files_to_include.v,
                                     options.compression_level)

ArchiveRoot == <<<<"home">>, <<"dev">>, <<"contract">>>>
UnpackRoot == <<<<"tmp">>, <<"unpacked">>>>
OutputPath == <<<<"tmp">>, <<"archive">>>>

\* a caller archives the project, then the files unpacked from that archive
CreateVerificationArchive ==
    /\ archive_pc \in {"start", "unpacked"}
    /\ LET out == create_verification_archive(archive_tree, OutputPath,
                                              archive_options, archive_sources)
       IN  /\ archive_file' = out.file
           /\ IF archive_pc = "start"
              THEN /\ archive_first' = Some(out.result)
                   /\ archive_pc' = IF out.result.ok THEN "archived" ELSE "failed"
                   /\ UNCHANGED archive_second
              ELSE /\ archive_second' = Some(out.result)
                   /\ archive_pc' = "done"
                   /\ UNCHANGED archive_first
    /\ UNCHANGED <<archive_tree, archive_options, archive_sources>>
    /\ UNCHANGED <<project, verifyState, fingerprintState, rust_version, buildState,
                   sdkState, concurrentState, interfaceState>>

\* the archive is unpacked into an empty directory: every entry becomes a file
\* with the entry's bytes; its modification time is the one recorded in the
\* entry when the archive records one and the unpacker restores it, else the
\* time of unpacking
UnpackArchive ==
    /\ archive_pc = "archived"
    /\ archive_file.some
    /\ \E restore \in BOOLEAN, now \in Clock :
          LET entries == archive_file.v.entries
              unpacked == {join(UnpackRoot, entries[i].name) : i \in 1..Len(entries)}
              entry(f) == CHOOSE i \in 1..Len(entries) : join(UnpackRoot, entries[i].name) = f
          IN  archive_tree' =
                [root |-> UnpackRoot,
                 files |-> [f \in unpacked |->
                    [data |-> entries[entry(f)].data,
                     mtime |-> IF restore /\ archive_file.v.format = "TarGz"
                               THEN entries[entry(f)].mtime ELSE now]]]
    /\ archive_pc' = "unpacked"
    /\ UNCHANGED <<archive_options, archive_sources, archive_first, archive_second,
                   archive_file>>
    /\ UNCHANGED <<project, verifyState, fingerprintState, rust_version, buildState,
                   sdkState, concurrentState, interfaceState>>

\* the file of a project, as first written
ArchiveFileOnDisk(rel) ==
    [data |-> IF rel = GitignoreFile THEN <<"target/", "Cargo.lock">>
              ELSE IF rel \in {CargoToml, CargoLock} THEN <<0>> ELSE <<1>>,
     mtime |-> 1]

ArchiveTrees ==
    {[root |-> ArchiveRoot,
      files |-> [f \in {join(ArchiveRoot, rel) : rel \in present} |->
                    ArchiveFileOnDisk(SubSeq(f, Len(ArchiveRoot) + 1, Len(f)))]] :
        present \in SUBSET ArchivePaths}

ArchiveOptionsDefault ==
    [format |-> "TarGz", only_compilation_files |-> TRUE,
     compression_level |-> 6, respect_gitignore |-> TRUE]

ArchiveOptionSets ==
    {[ArchiveOptionsDefault EXCEPT !.format = f, !.only_compilation_files = o,
                                   !.respect_gitignore = g] :
        f \in {"TarGz", "Zip"}, o \in BOOLEAN, g \in BOOLEAN}

\* keys of metadata.build_metadata.sources of a compilation result
ArchiveSources ==
    {None, Some({SrcLib, Aggregate}), Some({SrcLib, TargetGen, RustToolchainToml})}

ArchiveIdle ==
    /\ archive_tree = [root |-> <<>>, files |-> <<>>]
    /\ archive_options = ArchiveOptionsDefault
    /\ archive_sources = None
    /\ archive_first = None
    /\ archive_second = None
    /\ archive_file = None
    /\ archive_pc = "idle"

----------------------------------------------------------------------------
(* contract.rs and builder.rs: SDK version resolution *)

\* The lock file of a project is one of: "missing", "invalid" (not valid
\* TOML), "no_sdk" (no fluentbase-sdk package), "registry" (fluentbase-sdk
\* 0.1.0 from a registry), "git" (fluentbase-sdk 0.1.0 from
\* git+https://...#a1b2c3d4e5f6a7b8).  Versions are sequences of tokens.

LockVersion == <<"0.1.0">>
LockCommit == <<"a1b2c3d4", "e5f6a7b8">>

\* extract_dependency_version
extract_dependency_version(dep_value) ==
    IF ~dep_value.some THEN None
    ELSE CASE dep_value.v.kind = "string" -> Some(dep_value.v.version)
           [] dep_value.v.kind = "table" /\ dep_value.v.version.some -> Some(dep_value.v.version.v)
           [] dep_value.v.kind = "table" /\ ~dep_value.v.version.some /\ dep_value.v.path -> Some(<<"path">>)
           [] dep_value.v.kind = "table" /\ ~dep_value.v.version.some /\ ~dep_value.v.path /\ dep_value.v.git -> Some(<<"git">>)
           [] OTHER -> None

\* contract.rs read_sdk_version_from_cargo_lock: Result<Option<String>>; the
\* whole text after '#' of a git source is appended
contract_read_sdk_version_from_cargo_lock(p) ==
    IF ~p.root_exists \/ p.cargo_lock = "missing" THEN Ok(None)
    ELSE IF p.cargo_lock = "invalid" THEN Err("Failed to parse Cargo.lock")
    ELSE IF p.cargo_lock = "no_sdk" THEN Ok(None)
    ELSE IF p.cargo_lock = "git" THEN Ok(Some(LockVersion \o <<"-">> \o LockCommit))
    ELSE Ok(Some(LockVersion))

\* parse_contract_metadata
parse_contract_metadata(p, dep_value) ==
    IF ~p.root_exists \/ p.cargo_toml = "missing" THEN Err("Failed to read Cargo.toml")
    ELSE IF p.cargo_toml = "no_sdk" \/ ~dep_value.some
         THEN Err("Not a Fluent contract (no fluentbase-sdk dependency)")
    ELSE IF p.cargo_toml = "no_package" THEN Err("No package section found")
    ELSE LET locked == contract_read_sdk_version_from_cargo_lock(p)
         IN  IF ~locked.ok THEN locked
             ELSE Ok([name |-> ContractName,
                      version |-> "0.1.0",
                      sdk_version |-> IF locked.v.some THEN locked.v
                                      ELSE extract_dependency_version(dep_value)])

ParseContractMetadata ==
    /\ sdk_pc = "start"
    /\ contract_metadata = None
    /\ contract_metadata' = Some(parse_contract_metadata(project, manifest_sdk))
    /\ UNCHANGED <<manifest_sdk, sdk_version_string, sdk_pc>>
    /\ UNCHANGED <<project, verifyState, fingerprintState, rust_version, buildState,
                   archiveState, concurrentState, interfaceState>>

\* build(): read_sdk_version_from_cargo_lock(&config.project_root)?
ReadSdkVersionFromCargoLock ==
    /\ sdk_pc = "start"
    /\ sdk_version_string = None
    /\ sdk_version_string' = Some(read_sdk_version_from_cargo_lock(project))
    /\ UNCHANGED <<manifest_sdk, contract_metadata, sdk_pc>>
    /\ UNCHANGED <<project, verifyState, fingerprintState, rust_version, buildState,
                   archiveState, concurrentState, interfaceState>>

ManifestVersion == <<"0.1">>

\* fluentbase-sdk = "0.1", = { version = "0.1", .. }, = { path = .. },
\* = { git = .. }, = { workspace = true }, or no such dependency
ManifestDependencies ==
    {None,
     Some([kind |-> "string", version |-> ManifestVersion]),
     Some([kind |-> "table", version |-> Some(ManifestVersion), path |-> FALSE, git |-> TRUE]),
     Some([kind |-> "table", version |-> None, path |-> TRUE, git |-> FALSE]),
     Some([kind |-> "table", version |-> None, path |-> FALSE, git |-> TRUE]),
     Some([kind |-> "table", version |-> None, path |-> FALSE, git |-> FALSE])}

SdkProjects ==
    {[DefaultProject EXCEPT !.cargo_toml = t, !.cargo_lock = l] :
        t \in {"ok", "missing", "no_package"},
        l \in {"missing", "invalid", "no_sdk", "registry", "git"}}

SdkIdle ==
    /\ manifest_sdk = None
    /\ contract_metadata = None
    /\ sdk_version_string = None
    /\ sdk_pc = "idle"

----------------------------------------------------------------------------
(* builder.rs compile_to_wasm: invocations running concurrently on one project *)

Invocations == {1, 2}

\* what cargo build writes for the given build settings: the artifact depends
\* on the features compiled in
cargo_build_output(cfg) ==
    <<(IF cfg.no_default_features THEN 0 ELSE 1)
        + (IF cfg.features = <<>> THEN 0 ELSE 2)>>

\* wasm_path: project_root/target/<target>/<profile>/<name>.wasm; the output
\* directory of the configuration is not part of it
wasm_path(cfg) ==
    cfg.project_root \o <<"target", "wasm32-unknown-unknown", cfg.profile,
                          "test_contract.wasm">>

\* compile_to_wasm, first half: cmd.output() runs cargo build to its end;
\* cargo writes the artifact below the project's target directory
CargoBuild(i) ==
    /\ inv_pc[i] = "start"
    /\ target_file' = [target_file EXCEPT ![wasm_path(inv_config[i])] =
                            Some(cargo_build_output(inv_config[i]))]
    /\ inv_compiled' = [inv_compiled EXCEPT ![i] = cargo_build_output(inv_config[i])]
    /\ inv_pc' = [inv_pc EXCEPT ![i] = "built"]
    /\ UNCHANGED <<inv_config, inv_wasm>>
    /\ UNCHANGED <<project, verifyState, fingerprintState, rust_version, buildState,
                   archiveState, sdkState, interfaceState>>

\* compile_to_wasm, second half: wasm_path.exists(), std::fs::read(&wasm_path)
ReadWasm(i) ==
    /\ inv_pc[i] = "built"
    /\ inv_wasm' = [inv_wasm EXCEPT ![i] = target_file[wasm_path(inv_config[i])]]
    /\ inv_pc' = [inv_pc EXCEPT ![i] = "done"]
    /\ UNCHANGED <<inv_config, inv_compiled, target_file>>
    /\ UNCHANGED <<project, verifyState, fingerprintState, rust_version, buildState,
                   archiveState, sdkState, interfaceState>>

ConcurrentRoot == <<"home", "dev", "contract">>

BuildSettings ==
    {[features |-> f, no_default_features |-> n] :
        f \in {<<>>, <<"extra">>}, n \in BOOLEAN}

\* both invocations work on the same project root, each with an output
\* directory of its own
ConcurrentConfigs ==
    {[i \in Invocations |->
        [project_root |-> ConcurrentRoot,
         output_dir |-> <<"out", i>>,
         profile |-> "release",
         features |-> st[i].features,
         no_default_features |-> st[i].no_default_features]] :
     st \in [Invocations -> BuildSettings]}

ConcurrentIdle ==
    /\ inv_config = <<>>
    /\ inv_pc = <<>>
    /\ inv_compiled = <<>>
    /\ inv_wasm = <<>>
    /\ target_file = <<>>

----------------------------------------------------------------------------
(* artifacts/metadata.rs: the per-source-file hash map *)

\* metadata.rs should_skip_path
metadata_should_skip_path(path) ==
    \E k \in 1..Len(path) :
        path[k] = <<"target">> \/ starts_with_dot(path[k]) \/ path[k] = <<"out">>

\* is_relevant_source_file: extension rs, or the name Cargo.toml / Cargo.lock
is_relevant_source_file(path) ==
    LET name == path[Len(path)]
    IN  \/ (extension(name).some /\ extension(name).v = "rs")
        \/ name \in {<<"Cargo", "toml">>, <<"Cargo", "lock">>}

\* extract_spdx_license: the files of the model carry no SPDX line
extract_spdx_license(content) == None

\* collect_source_files: relative path -> content hash and license of every
\* walked file that is neither skipped nor irrelevant
collect_source_files(root, files, walk) ==
    LET kept == {rel \in {walk[i] : i \in DOMAIN walk} :
                    /\ ~metadata_should_skip_path(root \o rel)
                    /\ is_relevant_source_file(root \o rel)}
    IN  Ok([rel \in kept |->
                [content_hash |-> LowerHex(Sha256(files[rel])),
                 license_identifier |-> extract_spdx_license(files[rel])]])

CollectSourceFiles ==
    /\ fingerprint_pc # "idle"
    /\ source_files = None
    /\ source_files' = Some(collect_source_files(project_root, tree, readdir_order))
    /\ UNCHANGED <<project_root, tree, readdir_order, tree_change, source_hash_before,
                   source_hash_after, fingerprint_pc, otherThanFingerprint>>

SourcePathsAscending ==
    <<CargoLock, CargoToml, Readme, RustToolchainFile, RustToolchainToml, SrcLib,
      TargetGen>>

\* the files of a project in the order the walk yields them
SourceWalk(present) == SelectSeq(SourcePathsAscending, LAMBDA f : f \in present)

SourceTrees ==
    {[f \in present |-> <<1>>] :
        present \in SUBSET {SourcePathsAscending[i] : i \in DOMAIN SourcePathsAscending}}

----------------------------------------------------------------------------
(* artifacts/abi.rs: ABI generation *)

GenerateAbi ==
    /\ generated_abi = None
    /\ generated_abi' = Some(abi_generate(parsed_routers))
    /\ UNCHANGED <<abi, contract_name, interface, function_selectors,
                   method_identifiers, parsed_routers>>
    /\ UNCHANGED <<project, verifyState, fingerprintState, rust_version, buildState,
                   archiveState, sdkState, concurrentState>>

RouterMethods ==
    {RouterMethod("transfer", TRUE), RouterMethod("balanceOf", TRUE),
     RouterMethod("configure", FALSE)}

\* routers with up to two methods
Routers ==
    {<<>>} \cup {<<m>> : m \in RouterMethods}
           \cup {<<m1, m2>> : m1 \in RouterMethods, m2 \in RouterMethods}

\* what parse_routers finds in a source file: up to two routers
RouterLists ==
    {<<>>} \cup {<<r>> : r \in Routers} \cup {<<r1, r2>> : r1 \in Routers, r2 \in Routers}

----------------------------------------------------------------------------
(* Solidity interface generation (artifacts/interface.rs)

   A JSON string that the code takes apart is a sequence of tokens:
   the type "tuple[]" is <<"tuple", "[]">>, the internal type
   "struct Item[]" is <<"struct ", "Item", "[]">>.  The generated text is a
   sequence of lines, each line a sequence of tokens. *)

ends_with(s, p) == Len(s) >= Len(p) /\ SubSeq(s, Len(s) - Len(p) + 1, Len(s)) = p

\* str::strip_suffix
strip_suffix(s, p) ==
    IF ends_with(s, p) THEN Some(SubSeq(s, 1, Len(s) - Len(p))) ELSE None

\* [String]::join
RECURSIVE join_with(_, _)
join_with(parts, sep) ==
    IF parts = <<>> THEN <<>>
    ELSE IF Len(parts) = 1 THEN parts[1]
    ELSE parts[1] \o <<sep>> \o join_with(Tail(parts), sep)

\* convert_case: the first letter of a word in upper case
Capitalised ==
    [w \in {"order", "manager", "Order", "Manager"} |->
        CASE w = "order" -> "Order"
          [] w = "manager" -> "Manager"
          [] OTHER -> w]

\* contract_name.to_case(Case::Pascal) on the words of the name
to_pascal(words) == [i \in DOMAIN words |-> Capitalised[words[i]]]

\* json!({ "type": base_type })
TypeOnly(ty) == [type |-> ty, internalType |-> None, components |-> None]

RECURSIVE format_sol_type(_)
format_sol_type(param) ==
    LET param_type == param.type IN
    IF param_type = <<"tuple">>
    THEN IF /\ param.internalType.some
            /\ strip_prefix(param.internalType.v, <<"struct ">>).some
         THEN strip_prefix(param.internalType.v, <<"struct ">>).v
         ELSE IF param.components.some
              THEN <<"(">> \o join_with([i \in DOMAIN param.components.v |->
                                            format_sol_type(param.components.v[i])], ",")
                     \o <<")">>
              ELSE <<"tuple">>
    ELSE IF strip_suffix(param_type, <<"[]">>).some
         THEN format_sol_type(TypeOnly(strip_suffix(param_type, <<"[]">>).v)) \o <<"[]">>
         ELSE param_type

get_data_location(ty, internal_type) ==
    IF internal_type.some /\ strip_prefix(internal_type.v, <<"struct ">>).some
    THEN Some("Memory")
    ELSE IF ty = <<"string">> \/ ty = <<"bytes">> THEN Some("Calldata")
    ELSE IF strip_suffix(ty, <<"[]">>).some THEN Some("Memory")
    ELSE IF starts_with(ty, <<"(">>) /\ ends_with(ty, <<")">>) THEN Some("Memory")
    ELSE None

format_parameter(param) ==
    LET name == param.name
        internal_type == param.internalType
        ty == IF internal_type.some /\ strip_prefix(internal_type.v, <<"struct ">>).some
              THEN strip_prefix(internal_type.v, <<"struct ">>).v
              ELSE format_sol_type(param)
        location == get_data_location(ty, internal_type)
        location_str == IF location = Some("Memory") THEN <<" memory">>
                        ELSE IF location = Some("Calldata") THEN <<" calldata">>
                        ELSE <<>>
    IN  IF name = "" THEN ty \o location_str
        ELSE ty \o location_str \o <<" ", name>>

format_function(func) ==
    LET params == join_with([i \in DOMAIN func.inputs |->
                                format_parameter(func.inputs[i])], ", ")
        returns == IF func.outputs = <<>> THEN <<>>
                   ELSE <<" returns (">>
                          \o join_with([i \in DOMAIN func.outputs |->
                                           format_parameter(func.outputs[i])], ", ")
                          \o <<")">>
        mut_str == IF func.stateMutability \in {"pure", "view", "payable"}
                   THEN <<" ", func.stateMutability>>
                   ELSE <<>>
    IN  <<"function ", func.name, "(">> \o params \o <<") external">>
            \o mut_str \o returns \o <<";">>

\* the lines of one struct definition
struct_definition(struct_name, components) ==
    <<(<<"struct ">> \o struct_name \o <<" {">>)>>
        \o [i \in DOMAIN components |->
                format_sol_type(components[i]) \o <<" ", components[i].name, ";">>]
        \o << <<"}">> >>

\* collect_structs: st holds the seen set and the definitions made so far
RECURSIVE collect_structs(_, _)
collect_structs(params, st) ==
    IF params = <<>> THEN st
    ELSE
        LET param == Head(params)
            struct_name ==
                IF param.internalType.some
                THEN strip_prefix(param.internalType.v, <<"struct ">>)
                ELSE None
            inserted == [st EXCEPT !.seen = @ \cup {struct_name.v}]
            after ==
                IF param.type = <<"tuple">>
                THEN IF struct_name.some /\ struct_name.v \notin st.seen
                     THEN IF param.components.some
                          THEN collect_structs(param.components.v,
                                   [inserted EXCEPT !.structs =
                                        Append(@, struct_definition(struct_name.v,
                                                                    param.components.v))])
                          ELSE inserted
                     ELSE st
                ELSE IF strip_suffix(param.type, <<"[]">>).some
                     THEN IF param.components.some
                          THEN collect_structs(param.components.v, st)
                          ELSE st
                     ELSE st
        IN  collect_structs(Tail(params), after)

RECURSIVE collect_all_structs(_, _)
\* the loop of generate over the function entries: inputs, then outputs
collect_all_structs(functions, st) ==
    IF functions = <<>> THEN st
    ELSE collect_all_structs(Tail(functions),
            collect_structs(Head(functions).outputs,
                collect_structs(Head(functions).inputs, st)))

RECURSIVE concat_lines(_)
concat_lines(defs) ==
    IF defs = <<>> THEN <<>>
    ELSE Head(defs) \o << <<>> >> \o concat_lines(Tail(defs))

\* generate: header, struct definitions, function signatures, closing brace
interface_generate(name, entries) ==
    LET functions == SelectSeq(entries, LAMBDA e : e.type = "function")
        collected == collect_all_structs(functions, [seen |-> {}, structs |-> <<>>])
    IN  Ok(<< <<"// SPDX-License-Identifier: MIT">>,
              <<"// Auto-generated from Rust source">>,
              <<"pragma solidity ^0.8.0;">>,
              <<>>,
              <<"interface I">> \o to_pascal(name) \o <<" {">> >>
           \o concat_lines(collected.structs)
           \o [i \in DOMAIN functions |-> format_function(functions[i])]
           \o << <<"}">> >>)

\* artifacts::generate with generate_interface set
GenerateInterface ==
    /\ interface = None
    /\ interface' = Some(interface_generate(contract_name, abi))
    /\ UNCHANGED <<abi, contract_name, function_selectors, method_identifiers,
                   parsed_routers, generated_abi>>
    /\ UNCHANGED <<project, verifyState, fingerprintState, rust_version, buildState,
                   archiveState, sdkState, concurrentState>>

\* Keccak256::digest of the signatures that occur in the model
Keccak256(signature) ==
    CASE signature = <<"submitOrder", "(", ")">> ->
            <<64, 155, 80, 157, 213, 221, 73, 123, 59, 129, 29, 121, 42, 181, 195, 5,
              190, 118, 244, 128, 164, 36, 139, 115, 171, 155, 43, 163, 224, 107, 238, 98>>
      [] signature = <<"submitOrder", "(", "uint256", ")">> ->
            <<196, 23, 66, 87, 216, 85, 98, 181, 224, 102, 161, 39, 177, 217, 47, 82,
              202, 11, 251, 54, 106, 31, 94, 46, 190, 163, 44, 197, 69, 220, 22, 128>>
      [] signature = <<"submitOrder", "(", "bytes", ")">> ->
            <<95, 24, 83, 41, 197, 102, 213, 208, 111, 47, 110, 198, 177, 118, 165, 149,
              165, 103, 66, 69, 170, 132, 36, 209, 186, 255, 129, 158, 137, 109, 112, 65>>
      [] signature = <<"submitOrder", "(", "uint256", "[]", ")">> ->
            <<113, 75, 156, 239, 201, 169, 49, 152, 181, 144, 220, 122, 106, 247, 30, 57,
              50, 213, 98, 132, 178, 6, 8, 4, 194, 185, 240, 83, 213, 56, 167, 55>>
      [] signature = <<"submitOrder", "(", "uint256", "[3]", ")">> ->
            <<195, 65, 229, 43, 233, 128, 143, 181, 158, 244, 226, 213, 90, 34, 29, 242,
              195, 12, 200, 51, 157, 81, 231, 13, 172, 63, 130, 109, 64, 214, 114, 244>>
      [] signature = <<"submitOrder", "(", "tuple", ")">> ->
            <<50, 38, 21, 42, 65, 117, 163, 197, 17, 60, 181, 57, 33, 233, 129, 181,
              33, 98, 157, 129, 6, 189, 160, 143, 132, 148, 166, 38, 230, 135, 18, 34>>
      [] signature = <<"submitOrder", "(", "tuple", "[]", ")">> ->
            <<77, 92, 186, 19, 123, 71, 159, 206, 184, 37, 198, 185, 168, 36, 106, 67,
              18, 110, 98, 157, 224, 39, 218, 192, 139, 20, 79, 87, 243, 173, 210, 76>>
      [] signature = <<"getOrder", "(", ")">> ->
            <<211, 109, 237, 210, 100, 237, 232, 189, 116, 47, 38, 163, 224, 240, 181, 2,
              133, 143, 183, 35, 41, 124, 5, 39, 156, 161, 58, 87, 194, 120, 152, 53>>
      [] signature = <<"getOrder", "(", "uint256", ")">> ->
            <<208, 158, 242, 65, 252, 204, 25, 100, 54, 103, 232, 99, 115, 65, 157, 221,
              173, 198, 15, 106, 115, 63, 92, 227, 135, 228, 73, 1, 19, 124, 103, 78>>
      [] signature = <<"getOrder", "(", "bytes", ")">> ->
            <<90, 201, 172, 112, 131, 148, 247, 235, 191, 46, 179, 170, 81, 163, 116, 135,
              210, 208, 223, 250, 24, 92, 19, 69, 200, 144, 19, 151, 198, 135, 188, 155>>
      [] signature = <<"getOrder", "(", "uint256", "[]", ")">> ->
            <<127, 245, 105, 44, 92, 121, 102, 250, 8, 75, 49, 221, 121, 246, 123, 41,
              124, 81, 232, 149, 144, 174, 233, 195, 235, 47, 75, 189, 148, 117, 162, 68>>
      [] signature = <<"getOrder", "(", "uint256", "[3]", ")">> ->
            <<164, 74, 231, 59, 234, 166, 192, 125, 17, 62, 73, 131, 218, 242, 17, 18,
              200, 8, 27, 89, 196, 118, 83, 111, 135, 58, 169, 164, 45, 125, 226, 162>>
      [] signature = <<"getOrder", "(", "tuple", ")">> ->
            <<191, 132, 184, 85, 233, 92, 40, 77, 52, 59, 77, 121, 34, 141, 195, 160,
              52, 174, 89, 35, 171, 101, 60, 183, 118, 196, 62, 191, 95, 143, 73, 129>>
      [] signature = <<"getOrder", "(", "tuple", "[]", ")">> ->
            <<177, 47, 4, 198, 96, 229, 190, 249, 65, 180, 167, 156, 188, 59, 65, 66,
              146, 42, 110, 25, 93, 165, 211, 179, 33, 37, 206, 117, 182, 9, 112, 151>>
      [] signature = <<"transfer", "(", "address", ",", "uint256", ")">> ->
            <<169, 5, 156, 187, 42, 176, 158, 178, 25, 88, 63, 74, 89, 165, 208, 98,
              58, 222, 52, 109, 150, 43, 205, 78, 70, 177, 29, 160, 71, 201, 4, 155>>

\* format!("{}({})", name, types.join(","))
canonical_signature(func) ==
    <<func.name, "(">>
        \o join_with([i \in DOMAIN func.inputs |-> func.inputs[i].type], ",")
        \o <<")">>

\* mod.rs extract_function_selectors: BTreeMap signature -> selector
extract_function_selectors(entries) ==
    LET functions == SelectSeq(entries, LAMBDA e : e.type = "function")
    IN  [signature \in {canonical_signature(functions[k]) : k \in DOMAIN functions} |->
            <<"0", "x">> \o LowerHex(SubSeq(Keccak256(signature), 1, 4))]

\* metadata.rs extract_method_identifiers: BTreeMap signature -> selector
extract_method_identifiers(entries) ==
    LET functions == SelectSeq(entries, LAMBDA e : e.type = "function")
    IN  [signature \in {canonical_signature(functions[k]) : k \in DOMAIN functions} |->
            LowerHex(SubSeq(Keccak256(signature), 1, 4))]

\* create_metadata: solidity_compatibility.function_selectors
ExtractFunctionSelectors ==
    /\ function_selectors = None
    /\ function_selectors' = Some(extract_function_selectors(abi))
    /\ UNCHANGED <<abi, contract_name, interface, method_identifiers,
                   parsed_routers, generated_abi>>
    /\ UNCHANGED <<project, verifyState, fingerprintState, rust_version, buildState,
                   archiveState, sdkState, concurrentState>>

\* metadata::generate: method_identifiers
ExtractMethodIdentifiers ==
    /\ method_identifiers = None
    /\ method_identifiers' = Some(extract_method_identifiers(abi))
    /\ UNCHANGED <<abi, contract_name, interface, function_selectors,
                   parsed_routers, generated_abi>>
    /\ UNCHANGED <<project, verifyState, fingerprintState, rust_version, buildState,
                   archiveState, sdkState, concurrentState>>

Primitive(name, ty) ==
    [name |-> name, type |-> <<ty>>, internalType |-> Some(<<ty>>), components |-> None]

PrimitiveArray(name, ty) ==
    [name |-> name, type |-> <<ty, "[]">>, internalType |-> Some(<<ty, "[]">>),
     components |-> None]

StructParam(name, struct, components) ==
    [name |-> name, type |-> <<"tuple">>, internalType |-> Some(<<"struct ", struct>>),
     components |-> Some(components)]

StructArrayParam(name, struct, components) ==
    [name |-> name, type |-> <<"tuple", "[]">>,
     internalType |-> Some(<<"struct ", struct, "[]">>),
     components |-> Some(components)]

FixedArrayParam(name, ty) ==
    [name |-> name, type |-> <<ty, "[3]">>, internalType |-> Some(<<ty, "[3]">>),
     components |-> None]

\* a tuple that is not a named struct
TupleParam(name, components) ==
    [name |-> name, type |-> <<"tuple">>, internalType |-> None,
     components |-> Some(components)]

ItemFields == <<Primitive("productId", "uint256"), Primitive("quantity", "uint256")>>

SettingsFields == <<Primitive("maxUsers", "uint256"), Primitive("timeout", "uint256")>>

\* the parameters an ABI of the model is made of: primitives, dynamic and
\* fixed-size arrays, a tuple, a struct, an array of structs, a struct nested
\* in a struct, an array of structs as a struct field
AbiParams ==
    {Primitive("x", "uint256"),
     Primitive("data", "bytes"),
     PrimitiveArray("amounts", "uint256"),
     FixedArrayParam("triple", "uint256"),
     TupleParam("pair", <<Primitive("addr", "address"), Primitive("value", "uint256")>>),
     StructParam("item", "Item", ItemFields),
     StructArrayParam("results", "Item", ItemFields),
     StructParam("config", "Config",
                 <<Primitive("version", "uint256"),
                   StructParam("settings", "Settings", SettingsFields)>>),
     StructParam("order", "Order",
                 <<Primitive("id", "uint256"),
                   StructArrayParam("items", "Item", ItemFields),
                   Primitive("metadata", "bytes")>>)}

AbiParamLists == {<<>>} \cup {<<p>> : p \in AbiParams}

AbiFunction(name, inputs, outputs, mutability) ==
    [name |-> name, type |-> "function", inputs |-> inputs, outputs |-> outputs,
     stateMutability |-> mutability]

\* the ABI of test_extract_method_identifiers and of the ERC-20 test
TransferAbi ==
    <<AbiFunction("transfer",
                  <<Primitive("to", "address"), Primitive("amount", "uint256")>>,
                  <<Primitive("", "bool")>>, "nonpayable")>>

\* ABIs of one or two functions
Abis ==
    {<<AbiFunction("submitOrder", i, o, "payable")>> :
        i \in AbiParamLists, o \in AbiParamLists}
    \cup
    {<<AbiFunction("submitOrder", i1, o1, "payable"),
       AbiFunction("getOrder", i2, <<>>, "view")>> :
        i1 \in AbiParamLists, o1 \in AbiParamLists, i2 \in AbiParamLists}
    \cup {TransferAbi}

ContractNames == {<<"order", "manager">>, <<"Order", "Manager">>}

InterfaceIdle ==
    /\ abi = <<>>
    /\ contract_name = <<>>
    /\ interface = None
    /\ function_selectors = None
    /\ method_identifiers = None
    /\ parsed_routers = <<>>
    /\ generated_abi = None

MoreIdle == ArchiveIdle /\ SdkIdle /\ ConcurrentIdle /\ InterfaceIdle

----------------------------------------------------------------------------
(* Specifications *)

VerifyIdle ==
    /\ config = [project_root |-> "/project", deployed_bytecode_hash |-> <<>>,
                 compile_config_override |-> None, metadata |-> None]
    /\ verify_pc = "idle"
    /\ compile_config = None
    /\ compile_called = FALSE
    /\ compilation_result = None
    /\ hash_compared = FALSE
    /\ verification_result = None
    /\ verify_at_result = None

BuildIdle ==
    /\ build_entry = "lib"
    /\ cli_args = [allow_dirty |-> FALSE, no_docker |-> TRUE]
    /\ build_config = None
    /\ build_pc = "idle"
    /\ build_locals = NoLocals
    /\ cargo_started = FALSE
    /\ build_result = None
    /\ cli_result = None

FingerprintIdle ==
    /\ project_root = <<>>
    /\ tree = <<>>
    /\ readdir_order = <<>>
    /\ tree_change = [kind |-> "none"]
    /\ source_hash_before = None
    /\ source_hash_after = None
    /\ fingerprint_pc = "idle"
    /\ source_files = None

VerifyInit ==
    /\ \E p \in VerifyProjects, now \in Clock : project = [p EXCEPT !.now = now]
    /\ \E h \in HashInputs, o \in Overrides :
          config = [project_root |-> "/project", deployed_bytecode_hash |-> h,
                    compile_config_override |-> o, metadata |-> None]
    /\ verify_pc = "start"
    /\ compile_config = None
    /\ compile_called = FALSE
    /\ compilation_result = None
    /\ hash_compared = FALSE
    /\ verification_result = None
    /\ verify_at_result = None
    /\ FingerprintIdle
    /\ rust_version = None
    /\ BuildIdle
    /\ MoreIdle

VerifyNext ==
    \/ VerifyBuildConfig
    \/ VerifyCompile
    \/ VerifyCompare
    \/ VerifyAtReturn

\* verification runs
Spec == VerifyInit /\ [][VerifyNext]_vars

OverrideInit ==
    /\ project \in VerifyProjects
    /\ \E h \in {<<"0", "1">>, <<"0", "2">>}, o \in OverrideCases :
          config = [project_root |-> "/project", deployed_bytecode_hash |-> h,
                    compile_config_override |-> o, metadata |-> None]
    /\ verify_pc = "start"
    /\ compile_config = None
    /\ compile_called = FALSE
    /\ compilation_result = None
    /\ hash_compared = FALSE
    /\ verification_result = None
    /\ verify_at_result = None
    /\ FingerprintIdle
    /\ rust_version = None
    /\ BuildIdle
    /\ MoreIdle

\* verification runs with compilation overrides
SpecOverride == OverrideInit /\ [][VerifyNext]_vars

FingerprintInit ==
    /\ project = DefaultProject
    /\ MoreIdle
    /\ VerifyIdle
    /\ rust_version = None
    /\ BuildIdle
    /\ project_root \in ProjectRoots
    /\ tree \in [TreePaths -> FileContents]
    /\ readdir_order \in WalkOrders
    /\ tree_change = [kind |-> "none"]
    /\ source_hash_before = None
    /\ source_hash_after = None
    /\ fingerprint_pc = "start"
    /\ source_files = None

FingerprintNext ==
    \/ CalculateSourceHash
    \/ CopyTree
    \/ ModifyFile

\* source fingerprints
SpecFingerprint == FingerprintInit /\ [][FingerprintNext]_vars

ToolchainInit ==
    /\ \E t \in TomlFiles, l \in LegacyFiles :
          project = [DefaultProject EXCEPT !.rust_toolchain_toml = t,
                                           !.rust_toolchain = l]
    /\ VerifyIdle
    /\ FingerprintIdle
    /\ rust_version = None
    /\ BuildIdle
    /\ MoreIdle

ToolchainNext == ReadRustToolchainVersion

\* toolchain resolution
SpecToolchain == ToolchainInit /\ [][ToolchainNext]_vars

BuildInit ==
    /\ project \in BuildProjects
    /\ MoreIdle
    /\ VerifyIdle
    /\ project_root = BuildRoot
    /\ tree = [f \in TreePaths |-> <<1>>]
    /\ readdir_order \in {w \in WalkOrders : w[1] = CargoToml /\ w[2] = SrcLib /\ w[3] = TargetGen}
    /\ tree_change = [kind |-> "none"]
    /\ source_hash_before = None
    /\ source_hash_after = None
    /\ fingerprint_pc = "idle"
    /\ source_files = None
    /\ rust_version = None
    /\ \/ /\ build_entry = "lib"
          /\ cli_args = [allow_dirty |-> FALSE, no_docker |-> TRUE]
          /\ \E a \in BOOLEAN, u \in BOOLEAN, l \in BOOLEAN :
                build_config =
                    Some([BuildConfigNew(BuildRoot) EXCEPT
                            !.use_git_source = u,
                            !.locked = l,
                            !.artifacts = [generate_interface |-> a, generate_abi |-> a,
                                           generate_metadata |-> a, pretty_json |-> TRUE]])
          /\ build_pc = "build_parse"
       \/ /\ build_entry = "cli"
          /\ cli_args \in [allow_dirty : BOOLEAN, no_docker : BOOLEAN]
          /\ build_config = Some(BuildConfigNew(BuildRoot))
          /\ build_pc = "cli_start"
    /\ build_locals = NoLocals
    /\ cargo_started = FALSE
    /\ build_result = None
    /\ cli_result = None

BuildNext ==
    \/ CliDetectVersions
    \/ CliRunInDocker
    \/ CliCheckGit
    \/ BuildParseContractInfo
    \/ BuildReadSdkVersion
    \/ BuildDetectGit
    \/ BuildCompileToWasm
    \/ BuildCompileToRwasm
    \/ BuildReadToolchain
    \/ BuildSourceHash
    \/ BuildGenerateArtifacts
    \/ CliFinish

\* builds, called directly or through the compile command
SpecBuild == BuildInit /\ [][BuildNext]_vars

RebuildInit == BuildInit /\ build_entry = "lib"

RebuildNext ==
    \/ BuildParseContractInfo
    \/ BuildReadSdkVersion
    \/ BuildDetectGit
    \/ BuildCompileToWasm
    \/ BuildCompileToRwasm
    \/ BuildReadToolchain
    \/ BuildSourceHash
    \/ BuildGenerateArtifacts
    \/ VerifyAgainstMetadata
    \/ VerifyBuildConfig
    \/ VerifyCompile
    \/ VerifyCompare
    \/ VerifyAtReturn

\* a build, then the verification of the same project against its metadata
SpecRebuild == RebuildInit /\ [][RebuildNext]_vars

ArchiveInit ==
    /\ project = DefaultProject
    /\ VerifyIdle
    /\ FingerprintIdle
    /\ rust_version = None
    /\ BuildIdle
    /\ SdkIdle
    /\ ConcurrentIdle
    /\ InterfaceIdle
    /\ archive_tree \in ArchiveTrees
    /\ archive_options \in ArchiveOptionSets
    /\ archive_sources \in ArchiveSources
    /\ archive_first = None
    /\ archive_second = None
    /\ archive_file = None
    /\ archive_pc = "start"

ArchiveNext ==
    \/ CreateVerificationArchive
    \/ UnpackArchive

\* source archives
SpecArchive == ArchiveInit /\ [][ArchiveNext]_vars

SdkInit ==
    /\ project \in SdkProjects
    /\ VerifyIdle
    /\ FingerprintIdle
    /\ rust_version = None
    /\ BuildIdle
    /\ ArchiveIdle
    /\ ConcurrentIdle
    /\ InterfaceIdle
    /\ manifest_sdk \in ManifestDependencies
    /\ contract_metadata = None
    /\ sdk_version_string = None
    /\ sdk_pc = "start"

SdkNext ==
    \/ ParseContractMetadata
    \/ ReadSdkVersionFromCargoLock

\* SDK version resolution
SpecSdk == SdkInit /\ [][SdkNext]_vars

ConcurrentInit ==
    /\ project = DefaultProject
    /\ VerifyIdle
    /\ FingerprintIdle
    /\ rust_version = None
    /\ BuildIdle
    /\ ArchiveIdle
    /\ SdkIdle
    /\ InterfaceIdle
    /\ inv_config \in ConcurrentConfigs
    /\ inv_pc = [i \in Invocations |-> "start"]
    /\ inv_compiled = [i \in Invocations |-> <<>>]
    /\ inv_wasm = [i \in Invocations |-> None]
    /\ target_file = [f \in {wasm_path(inv_config[i]) : i \in Invocations} |-> None]

ConcurrentNext ==
    \E i \in Invocations : CargoBuild(i) \/ ReadWasm(i)

\* two invocations on one project root
SpecConcurrent == ConcurrentInit /\ [][ConcurrentNext]_vars

InterfaceInit ==
    /\ project = DefaultProject
    /\ VerifyIdle
    /\ FingerprintIdle
    /\ rust_version = None
    /\ BuildIdle
    /\ ArchiveIdle
    /\ SdkIdle
    /\ ConcurrentIdle
    /\ abi \in Abis
    /\ contract_name \in ContractNames
    /\ interface = None
    /\ function_selectors = None
    /\ method_identifiers = None
    /\ parsed_routers = <<>>
    /\ generated_abi = None

InterfaceNext ==
    \/ GenerateInterface
    \/ ExtractFunctionSelectors
    \/ ExtractMethodIdentifiers

SourcesInit ==
    /\ project = DefaultProject
    /\ MoreIdle
    /\ VerifyIdle
    /\ rust_version = None
    /\ BuildIdle
    /\ project_root \in ProjectRoots
    /\ tree \in SourceTrees
    /\ readdir_order = SourceWalk(DOMAIN tree)
    /\ tree_change = [kind |-> "none"]
    /\ source_hash_before = None
    /\ source_hash_after = None
    /\ fingerprint_pc = "start"
    /\ source_files = None

SourcesNext ==
    \/ CalculateSourceHash
    \/ CollectSourceFiles

\* the fingerprint and the sources map of one project
SpecSources == SourcesInit /\ [][SourcesNext]_vars

AbiInit ==
    /\ project = DefaultProject
    /\ VerifyIdle
    /\ FingerprintIdle
    /\ rust_version = None
    /\ BuildIdle
    /\ ArchiveIdle
    /\ SdkIdle
    /\ ConcurrentIdle
    /\ abi = <<>>
    /\ contract_name = <<>>
    /\ interface = None
    /\ function_selectors = None
    /\ method_identifiers = None
    /\ parsed_routers \in RouterLists
    /\ generated_abi = None

AbiNext == GenerateAbi

\* ABI generation
SpecAbi == AbiInit /\ [][AbiNext]_vars

\* interface and selector generation
SpecInterface == InterfaceInit /\ [][InterfaceNext]_vars

----------------------------------------------------------------------------
(* Properties of the verification engine *)

RebuiltHash == LowerHex(compilation_result.v.v.result.outputs.rwasm)

\* C1: when the configuration is built and compilation succeeds, the result is
\* Success exactly when the normalised expected hash equals the hex SHA-256 of
\* the rebuilt rWASM and BytecodeMismatch otherwise, both hashes are recorded,
\* and verify_at answers true exactly for Success.
C1_CompareClassifies ==
    /\ (verification_result.some /\ compilation_result.some /\ compilation_result.v.ok) =>
          LET r == verification_result.v
              expected == normalize_hash(config.deployed_bytecode_hash)
          IN  /\ r.status = IF expected = RebuiltHash THEN "Success" ELSE "BytecodeMismatch"
              /\ r.details.expected_hash = expected
              /\ r.details.actual_hash = Some(RebuiltHash)
    /\ verify_at_result.some =>
          (verify_at_result.v <=> verification_result.v.status = "Success")

C1_Witness ==
    /\ verify_at_result = Some(TRUE)
    /\ verification_result.v.status = "Success"
    /\ config.deployed_bytecode_hash # RebuiltHash

\* C2: a result with status InvalidConfig or CompilationFailed has no actual
\* hash, no compilation result and an error message, and no comparison was
\* made; actual hash and compilation result are present exactly for Success
\* and BytecodeMismatch; the error message is absent exactly for Success.
C2_FailureCarriesNoHash ==
    verification_result.some =>
        LET r == verification_result.v
            compared == r.status \in {"Success", "BytecodeMismatch"}
        IN  /\ r.status \in {"InvalidConfig", "CompilationFailed"} =>
                  /\ r.details.actual_hash = None
                  /\ r.compilation_result = None
                  /\ r.details.error_message.some
                  /\ ~hash_compared
            /\ r.details.actual_hash.some <=> compared
            /\ r.compilation_result.some <=> compared
            /\ r.details.error_message.some <=> r.status # "Success"

C2_Witness ==
    /\ verification_result.some
    /\ verification_result.v.status = "CompilationFailed"
    /\ compile_called

\* C3: a project root that does not exist, or has no Cargo.toml, is reported
\* as InvalidConfig, before compile() is entered.
C3_MissingProjectIsInvalidConfig ==
    (verification_result.some /\ (~project.root_exists \/ project.cargo_toml = "missing")) =>
        /\ verification_result.v.status = "InvalidConfig"
        /\ ~compile_called

\* C4: every textual variant of a digest (padded with whitespace or not, with
\* a 0x prefix or not, digits in either case) normalises to the bare lowercase
\* digits, so the expected hash recorded by the comparison is that string.
C4_NormalizeCanonical ==
    hash_compared =>
        \A i \in 0..MaxPad, j \in 0..MaxPad, pre \in {<<>>, <<"0", "x">>},
           body \in Strings(BodyChars, MaxBody) \ {<<>>} :
            config.deployed_bytecode_hash = Pad(i) \o pre \o body \o Pad(j) =>
                verification_result.v.details.expected_hash = to_lowercase(body)


----------------------------------------------------------------------------
(* Properties of the source fingerprint *)

\* C5: two copies of a tree with the same relative paths and the same bytes
\* get the same source hash whatever order the directory walk yields the
\* files in.
C5_OrderIndependent ==
    (fingerprint_pc = "done" /\ tree_change.kind = "copied") =>
        source_hash_after = source_hash_before

\* C6: wherever the project root lies, changing one byte of an included file
\* changes the source hash, and changing an excluded file does not.
C6_SensitiveToIncludedFiles ==
    (fingerprint_pc = "done" /\ tree_change.kind = "modified") =>
        IF IncludedInProject(tree_change.path)
        THEN source_hash_after # source_hash_before
        ELSE source_hash_after = source_hash_before

----------------------------------------------------------------------------
(* Properties of toolchain resolution *)

\* the channel the resolution reads: the one of rust-toolchain.toml when that
\* file exists, else the legacy file's text without the white space around it
PinnedChannelIs(ch) ==
    IF project.rust_toolchain_toml.some
    THEN /\ project.rust_toolchain_toml.v.parses
         /\ project.rust_toolchain_toml.v.channel = Some(ch)
    ELSE /\ project.rust_toolchain.some
         /\ \E pre \in ChannelPads, post \in ChannelPads :
               project.rust_toolchain.v = pre \o ch \o post

\* C7: resolution fails when the pinned channel is stable, beta, nightly or
\* empty, returns a concrete version unchanged, and never succeeds with a
\* floating channel.
C7_FloatingChannelRejected ==
    rust_version.some =>
        /\ \A ch \in FloatingChannels \cup {<<>>} :
              PinnedChannelIs(ch) => ~rust_version.v.ok
        /\ \A ch \in PinnedChannels :
              PinnedChannelIs(ch) => rust_version.v = Ok(ch)
        /\ rust_version.v.ok => rust_version.v.v \notin FloatingChannels \cup {<<>>}

C7_Witness ==
    /\ rust_version.some
    /\ ~project.rust_toolchain_toml.some
    /\ project.rust_toolchain = Some(<<"nightly", "\n">>)
    /\ ~rust_version.v.ok

----------------------------------------------------------------------------
(* Properties of the build orchestrator *)

\* the configuration errors of a build: project root or Cargo.toml missing, no
\* fluentbase-sdk dependency, toolchain pin missing or naming a floating channel
ConfigurationErrors ==
    {"Failed to read Cargo.toml",
     "Not a Fluent contract: no fluentbase-sdk dependency found in Cargo.toml",
     "No rust-toolchain.toml found in project root",
     "Rust toolchain must specify a pinned version for reproducible builds",
     "Rust toolchain channel cannot be empty"}

BuildFailedWith(errors) ==
    build_result.some /\ ~build_result.v.ok /\ build_result.v.e \in errors

\* C8: a build that fails with a configuration error has not started the
\* cargo build subprocess.
C8_ConfigErrorsBeforeCargo ==
    BuildFailedWith(ConfigurationErrors) => ~cargo_started

BuildSucceeded == build_result.some /\ build_result.v.ok

RecordedSource == build_result.v.v.artifacts.v.metadata.source

\* C9: a build of a dirty working tree does not complete with Archive
\* provenance unless the caller allowed a dirty tree.
C9_DirtyTreeFails ==
    (/\ BuildSucceeded
     /\ build_locals.git_info.some
     /\ build_locals.git_info.v.is_dirty
     /\ build_result.v.v.artifacts.some
     /\ RecordedSource.kind = "Archive")
        => (build_entry = "cli" /\ cli_args.allow_dirty)

----------------------------------------------------------------------------
(* Properties of the source archive *)

ArchivedNames(file) == {file.v.entries[i].name : i \in 1..Len(file.v.entries)}

InProject(rel) == join(archive_tree.root, rel) \in DOMAIN archive_tree.files

\* C11: every critical file (Cargo.toml, Cargo.lock, the toolchain pin) that
\* exists in the project root is in the archive, whatever the options and the
\* ignore rules, and archiving fails when Cargo.toml is absent.
C11_CriticalFilesArchived ==
    (archive_pc \in {"archived", "failed"}) =>
        IF ~InProject(CargoToml) THEN ~archive_first.v.ok
        ELSE archive_first.v.ok =>
                \A c \in {CargoToml, CargoLock, RustToolchainToml, RustToolchainFile} :
                    InProject(c) => c \in ArchivedNames(archive_file)

IsRustSource(rel) ==
    extension(rel[Len(rel)]).some /\ extension(rel[Len(rel)]).v = "rs"

\* C12: archiving fails, and writes no archive, when no source file was
\* matched.
C12_NoSourceIsFailure ==
    (archive_pc \in {"archived", "failed"}
        /\ \A rel \in ArchivePaths : InProject(rel) => ~IsRustSource(rel)) =>
            /\ ~archive_first.v.ok
            /\ archive_file = None

UnderExcludedDirectory(rel) ==
    \E k \in 1..(Len(rel) - 1) : rel[k] = <<"target">> \/ starts_with_dot(rel[k])

\* C13: no archived file lies under target, a hidden directory or a dependency
\* cache, and an archived file that is not a critical file is a .rs file.
C13_ExcludedDirectoriesNotArchived ==
    (archive_pc = "archived") =>
        \A rel \in ArchivedNames(archive_file) :
            /\ ~UnderExcludedDirectory(rel)
            /\ rel \notin {CargoToml, CargoLock, RustToolchainToml, RustToolchainFile}
                  => IsRustSource(rel)

\* C14: the archive of the files unpacked from an archive, made with the same
\* options, holds the same entries (the selected files, each once, ascending,
\* with their bytes) and has the same content hash.
C14_ArchiveRoundTrip ==
    (archive_pc = "done" /\ archive_second.v.ok) =>
        LET entries == archive_file.v.entries
        IN  /\ \A i \in 1..Len(entries) :
                  /\ InProject(entries[i].name)
                  /\ entries[i].data = archive_tree.files[join(archive_tree.root, entries[i].name)].data
            /\ Len(entries) = Cardinality(DOMAIN archive_tree.files)
            /\ \A i, j \in 1..Len(entries) : i < j =>
                  \E a, b \in 1..Len(ArchivePathsAscending) :
                      /\ a < b
                      /\ ArchivePathsAscending[a] = entries[i].name
                      /\ ArchivePathsAscending[b] = entries[j].name
            /\ archive_second.v.v.hash = archive_first.v.v.hash

----------------------------------------------------------------------------
(* Properties of SDK version resolution *)

\* what the lock file says about fluentbase-sdk: the exact version, with the
\* first eight characters of the commit for a git source
LockedSdkVersion ==
    IF project.cargo_lock = "git" THEN LockVersion \o <<"-", Head(LockCommit)>>
    ELSE LockVersion

\* C15: with a Cargo.lock the resolved SDK version is the lock file's (with
\* the short commit hash for a git source); the manifest's version is used
\* only when there is no Cargo.lock, and then the resolution succeeds.
C15_SdkVersionFromLockFile ==
    /\ (contract_metadata.some /\ contract_metadata.v.ok) =>
          LET v == contract_metadata.v.v.sdk_version
          IN  /\ project.cargo_lock \in {"registry", "git"} => v = Some(LockedSdkVersion)
              /\ (v.some /\ v.v \in {ManifestVersion, <<"path">>, <<"git">>})
                    => project.cargo_lock = "missing"
    /\ sdk_version_string.some =>
          /\ project.cargo_lock \in {"registry", "git"} =>
                sdk_version_string.v = Ok(LockedSdkVersion)
          /\ (project.cargo_lock = "missing" /\ project.cargo_toml = "ok"
                /\ extract_dependency_version(manifest_sdk).some) =>
                sdk_version_string.v.ok

----------------------------------------------------------------------------
(* Properties of concurrent invocations *)

\* C16: whatever the interleaving of two invocations on one project root, the
\* WASM bytes an invocation returns are the bytes its own cargo build
\* produced.
C16_InvocationsDoNotInterfere ==
    \A i \in Invocations :
        (inv_pc # <<>> /\ inv_pc[i] = "done") => inv_wasm[i] = Some(inv_compiled[i])

----------------------------------------------------------------------------
(* Properties of error propagation and of the order of the build's steps *)

Carries(context, text) == \E k \in 1..Len(context) : context[k] = text

\* C17: a build whose compiler, transformer or method-signature parser failed
\* does not succeed, and its error carries the collaborator's diagnostic text
\* (for the compiler, stdout and stderr).
C17_CollaboratorFailureAborts ==
    (build_pc \in {"build_done", "exited"} /\ build_result.some) =>
        /\ BuildSucceeded => project.cargo_build = "ok"
        /\ BuildFailedWith({"Cargo build failed"}) =>
              /\ Carries(build_result.v.context, project.cargo_output.stderr)
              /\ Carries(build_result.v.context, project.cargo_output.stdout)
        /\ BuildSucceeded => compile_to_rwasm(project.wasm).ok
        /\ BuildFailedWith({"rWASM compilation failed"}) =>
              Carries(build_result.v.context, TransformerDiagnostic)
        /\ (BuildSucceeded /\ build_result.v.v.artifacts.some) => project.parse_routers.ok

\* the stage a step of build() belongs to: resolving the contract, the SDK
\* version, the repository status and the toolchain is stage 1, then compile,
\* transform, fingerprint, artifacts, done
BuildStage(pc) ==
    CASE pc \in {"build_parse", "build_sdk", "build_git", "build_toolchain"} -> 1
      [] pc = "build_wasm" -> 2
      [] pc = "build_rwasm" -> 3
      [] pc = "build_hash" -> 4
      [] pc = "build_artifacts" -> 5
      [] OTHER -> 6

BuildSteps ==
    {"build_parse", "build_sdk", "build_git", "build_wasm", "build_rwasm",
     "build_toolchain", "build_hash", "build_artifacts"}

\* C18: a build goes through resolve, compile, transform, fingerprint,
\* artifacts, done in that order: no step of an earlier stage follows a step
\* of a later one, the compiler and the transformer run once, the transformer
\* only on the compiler's output, and nothing runs after a failure.
C18_StagesInLinearOrder ==
    [][(build_pc \in BuildSteps /\ build_pc' # build_pc) =>
            /\ BuildStage(build_pc') >= BuildStage(build_pc)
            /\ build_pc \in {"build_wasm", "build_rwasm"} =>
                  BuildStage(build_pc') > BuildStage(build_pc)
            /\ build_pc' = "build_rwasm" => build_locals'.wasm = project.wasm
            /\ (build_result'.some /\ ~build_result'.v.ok) => build_pc' = "build_done"]_vars

----------------------------------------------------------------------------
(* Properties of the interface generation *)

StructPrefix == <<"struct ">>

ArraySuffix == <<"[]">>

\* the struct a parameter refers to, if any: S for "struct S" and "struct S[]"
StructOf(param) ==
    IF param.internalType.some /\ starts_with(param.internalType.v, StructPrefix)
    THEN LET named == SubSeq(param.internalType.v, 2, Len(param.internalType.v))
         IN  IF ends_with(named, ArraySuffix)
             THEN Some(SubSeq(named, 1, Len(named) - 1))
             ELSE Some(named)
    ELSE None

IsArrayOfStruct(param) ==
    /\ param.type = <<"tuple", "[]">>
    /\ StructOf(param).some

\* the parameters of a list and all their components, at any depth
RECURSIVE ParamsWithin(_)
ParamsWithin(params) ==
    UNION {{params[i]} \cup (IF params[i].components.some
                             THEN ParamsWithin(params[i].components.v)
                             ELSE {}) : i \in DOMAIN params}

AbiParamsAnywhere ==
    UNION {ParamsWithin(abi[k].inputs) \cup ParamsWithin(abi[k].outputs) : k \in DOMAIN abi}

ReferencedStructs == {StructOf(p).v : p \in {q \in AbiParamsAnywhere : StructOf(q).some}}

InterfaceText == interface.v.v

DeclarationLine(struct_name) == StructPrefix \o struct_name \o <<" {">>

\* C19: the interface text has exactly one struct declaration for every
\* struct name the ABI refers to (as a function input or output, as a nested
\* field or as an array element) and no other struct declaration.
C19_OneDeclarationPerStruct ==
    interface.some =>
        /\ \A n \in ReferencedStructs :
                Cardinality({i \in DOMAIN InterfaceText :
                                InterfaceText[i] = DeclarationLine(n)}) = 1
        /\ \A i \in DOMAIN InterfaceText :
                starts_with(InterfaceText[i], StructPrefix) =>
                    \E n \in ReferencedStructs : InterfaceText[i] = DeclarationLine(n)

Contains(line, part) ==
    \E j \in 1..(Len(line) - Len(part) + 1) : SubSeq(line, j, j + Len(part) - 1) = part

FunctionLine(func) ==
    CHOOSE l \in {InterfaceText[i] : i \in DOMAIN InterfaceText} :
        starts_with(l, <<"function ", func.name>>)

\* C20: an array of structs is written S[] and never tuple[], as a function
\* parameter and as a field of a declared struct.
C20_StructArraysByName ==
    interface.some =>
        /\ \A i \in DOMAIN InterfaceText : ~Contains(InterfaceText[i], <<"tuple", "[]">>)
        /\ \A k \in DOMAIN abi :
             \A p \in {abi[k].inputs[i] : i \in DOMAIN abi[k].inputs}
                        \cup {abi[k].outputs[i] : i \in DOMAIN abi[k].outputs} :
                IsArrayOfStruct(p) =>
                    Contains(FunctionLine(abi[k]), StructOf(p).v \o ArraySuffix)
        /\ \A q \in AbiParamsAnywhere :
                (q.type = <<"tuple">> /\ q.components.some) =>
                    \A i \in DOMAIN q.components.v :
                        IsArrayOfStruct(q.components.v[i]) =>
                            \E l \in DOMAIN InterfaceText :
                                InterfaceText[l] =
                                    StructOf(q.components.v[i]).v \o ArraySuffix
                                        \o <<" ", q.components.v[i].name, ";">>

\* the rendering of the inputs in a function line: what stands between
\* "name(" and ") external"
InputsRendered(line) ==
    LET close == CHOOSE j \in DOMAIN line : line[j] = ") external"
    IN  SubSeq(line, 4, close - 1)

\* the rendering of the outputs: what stands between " returns (" and ");"
OutputsRendered(line) ==
    LET open == CHOOSE j \in DOMAIN line : line[j] = " returns ("
    IN  SubSeq(line, open + 1, Len(line) - 2)

HasQualifier(rendered) ==
    \E j \in DOMAIN rendered : rendered[j] \in {" memory", " calldata"}

\* struct, array (dynamic or fixed-size), tuple, bytes or string
IsReferenceType(param) ==
    \/ StructOf(param).some
    \/ param.type[Len(param.type)] \in {"[]", "[3]"}
    \/ param.type = <<"tuple">>
    \/ param.type \in {<<"bytes">>, <<"string">>}

\* C21: a parameter of a function signature carries a memory or calldata
\* qualifier exactly when its type is a struct, an array (dynamic or
\* fixed-size), a tuple, bytes or string.
C21_QualifierIffReferenceType ==
    interface.some =>
        \A k \in DOMAIN abi :
            /\ abi[k].inputs # <<>> =>
                  (HasQualifier(InputsRendered(FunctionLine(abi[k])))
                      <=> IsReferenceType(abi[k].inputs[1]))
            /\ abi[k].outputs # <<>> =>
                  (HasQualifier(OutputsRendered(FunctionLine(abi[k])))
                      <=> IsReferenceType(abi[k].outputs[1]))

TransferSignature == <<"transfer", "(", "address", ",", "uint256", ")">>

\* every function of the ABI has its entry: the key is name(type1,type2,...)
\* and the value the 8 hex digits of the first 4 bytes of the Keccak-256
\* digest of the key
SelectorTableCorrect(table) ==
    /\ \A k \in DOMAIN abi :
          LET key == <<abi[k].name, "(">>
                        \o join_with([i \in DOMAIN abi[k].inputs |->
                                         abi[k].inputs[i].type], ",")
                        \o <<")">>
          IN  /\ key \in DOMAIN table
              /\ Len(table[key]) = 8
              /\ table[key] = LowerHex(SubSeq(Keccak256(key), 1, 4))
    /\ TransferSignature \in DOMAIN table =>
          table[TransferSignature] = <<"a", "9", "0", "5", "9", "c", "b", "b">>

\* C22: the selector table has, for every function of the ABI, the entry
\* canonical signature -> first 4 bytes of its Keccak-256 digest as 8 hex
\* digits; transfer(address,uint256) maps to a9059cbb.
C22_SelectorsOfCanonicalSignatures ==
    /\ function_selectors.some => SelectorTableCorrect(function_selectors.v)
    /\ method_identifiers.some => SelectorTableCorrect(method_identifiers.v)

\* the bytes of the file went into the hasher of calculate_source_hash
FoldedIntoSourceHash(rel) ==
    /\ ~should_skip_path(project_root \o rel)
    /\ should_include(project_root \o rel)

\* C23: a file of the project has an entry in the sources map of the
\* metadata if and only if its bytes were folded into the source tree hash.
C23_SourcesMapCoversFingerprint ==
    (source_files.some /\ source_hash_before.some) =>
        \A rel \in DOMAIN tree :
            (rel \in DOMAIN source_files.v.v) <=> FoldedIntoSourceHash(rel)

\* the methods of all parsed routers, in order
RECURSIVE AllMethods(_)
AllMethods(routers) ==
    IF routers = <<>> THEN <<>> ELSE Head(routers) \o AllMethods(Tail(routers))

\* C24: the ABI has one function descriptor for every method of every parsed
\* router, in order; no method gives the empty ABI; generation does not fail.
C24_AbiEntryPerMethod ==
    generated_abi.some =>
        /\ generated_abi.v.ok
        /\ Len(generated_abi.v.v) = Len(AllMethods(parsed_routers))
        /\ \A i \in DOMAIN generated_abi.v.v :
              generated_abi.v.v[i].name = AllMethods(parsed_routers)[i].name

OverrideSupplies(field) ==
    /\ config.compile_config_override.some
    /\ config.compile_config_override.v[field].some

OverrideValue(field) == config.compile_config_override.v[field].v

\* C26: the configuration compiled for verification takes every field the
\* override supplies (rustc_version, sdk_version, profile, features,
\* no_default_features, cargo_flags, rustflags), keeps the default of every
\* field it does not supply, and has generate_abi on, generate_interface and
\* generate_metadata off.
C26_OverrideApplied ==
    compile_config.some =>
        LET cfg == compile_config.v
            dflt == CompileConfigDefault(config.project_root)
        IN  /\ \A f \in {"profile", "features", "no_default_features", "cargo_flags"} :
                    cfg[f] = IF OverrideSupplies(f) THEN OverrideValue(f) ELSE dflt[f]
            /\ cfg.rustflags = IF OverrideSupplies("rustflags")
                               THEN Some(OverrideValue("rustflags")) ELSE dflt.rustflags
            /\ cfg.project_root = config.project_root
            /\ cfg.artifacts.generate_abi
            /\ ~cfg.artifacts.generate_interface
            /\ ~cfg.artifacts.generate_metadata
            /\ cfg.artifacts.pretty_json = dflt.artifacts.pretty_json
            /\ (compilation_result.some /\ compilation_result.v.ok) =>
                  LET built == compilation_result.v.v.result
                  IN  /\ OverrideSupplies("rustc_version") =>
                            built.build_metadata.rustc_version = OverrideValue("rustc_version")
                      /\ OverrideSupplies("sdk_version") =>
                            built.contract_info.sdk_version = Some(OverrideValue("sdk_version"))

\* C27: ArchiveInfo.cargo_toml_path is Cargo.toml, the manifest at the
\* project root, also when the project holds nested crates.
C27_ManifestPathIsRootManifest ==
    (archive_first.some /\ archive_first.v.ok) =>
        archive_first.v.v.cargo_toml_path = CargoToml

\* C28: verifying the unchanged project against the rWASM hash stored in the
\* metadata of its own build (sha256:<hex>) gives Success.
C28_MetadataHashVerifies ==
    (build_result.some /\ verification_result.some) =>
        verification_result.v.status = "Success"

\* the Source variant stored in the metadata, under the name the CLI prints
MetadataSourceType ==
    IF build_result.v.v.artifacts.v.metadata.source.kind = "Git" THEN "git" ELSE "archive"

\* C29: a build whose configuration has use_git_source = false stores an Archive
\* source in its metadata, and the source_type printed by the compile command
\* is the variant stored in the metadata.
C29_ProvenanceFollowsUseGitSource ==
    (build_result.some /\ build_result.v.ok /\ build_result.v.v.artifacts.some) =>
        /\ ~build_config.v.use_git_source => MetadataSourceType = "archive"
        /\ (cli_result.some /\ cli_result.v.ok) =>
               cli_result.v.v.source_type = MetadataSourceType

\* what a build records when Cargo.lock is in the state lock all along
RecordedFromLock(lock, m) ==
    LET p == [project EXCEPT !.cargo_lock = lock]
    IN  /\ read_sdk_version_from_cargo_lock(p).ok
        /\ m.compilation_settings.sdk =
              parse_sdk_version(read_sdk_version_from_cargo_lock(p).v)
        /\ m.dependencies.cargo_lock_hash = Sha256Tag \o calculate_cargo_lock_hash(p).v
        /\ m.source_tree_hash =
              Sha256Tag \o calculate_source_hash(project_root, project_files(p, tree),
                                                 project_walk(p, readdir_order))

\* C30: the SDK version, the Cargo.lock hash and the source tree hash in the
\* metadata of a successful build all come from one Cargo.lock.
C30_OneCargoLockPerBuild ==
    (build_result.some /\ build_result.v.ok /\ build_result.v.v.artifacts.some) =>
        \E lock \in {"registry", "git"} :
            RecordedFromLock(lock, build_result.v.v.artifacts.v.metadata)

====
